---- MODULE Spec2Model ----
(***************************************************************************)
(* Dependency graph resolution engine of the build system:                 *)
(* TopologyService (validate_dependencies, detect_cycles, sort_tasks with  *)
(* Kahn and DFS orderings) and BuildService.get_sorted_tasks with the      *)
(* sorted-result cache of CacheService.                                    *)
(*                                                                         *)
(* A task universe is a function from the names of the stored tasks to     *)
(* their prerequisite sets; a build is its member list.  Python iterates   *)
(* a set or a dict in an order the algorithms do not control: every        *)
(* operator that iterates one takes that order as the parameter ord, a     *)
(* permutation of TaskNames, and every action draws it afresh.             *)
(***************************************************************************)
EXTENDS Integers, Sequences, FiniteSets, TLC

\* ---------------------------------------------------------------- bounds
\* the task names of the universes and builds of Spec
TaskNames == {"a", "b", "c"}
BuildNames == {"b1"}
\* sorted(...) of task names: their lexicographic order
NameOrder == <<"a", "b", "c", "d", "e">>

KAHN == "kahn"
DFS == "dfs"
SortAlgorithm == {KAHN, DFS}

\* algorithm = None, the default of the algorithm arguments
None == "None"

\* if algorithm is None: algorithm = SortAlgorithm.KAHN
DefaultKahn(alg) == IF alg = None THEN KAHN ELSE alg

PENDING == "pending"
RUNNING == "running"
COMPLETED == "completed"
FAILED == "failed"
CANCELLED == "cancelled"
BuildStatus == {PENDING, RUNNING, COMPLETED, FAILED, CANCELLED}

VARIABLES tasks, builds, cache, op, algorithm, ret, status, changes, origin, requests, job

vars == <<tasks, builds, cache, op, algorithm, ret, status, changes, origin, requests, job>>

\* the state of the build lifecycle, of the configuration changes, of the
\* resolution requests in flight and of the background job; origin remembers
\* for every cache key the configuration its entry was computed from
otherVars == <<status, changes, origin, requests, job>>

\* ------------------------------------------------------------ sequences
Range(s) == {s[i] : i \in DOMAIN s}

NoDuplicates(s) == \A i, j \in DOMAIN s : i # j => s[i] # s[j]

\* list.index(x): position of the first occurrence
Index(s, x) == CHOOSE i \in DOMAIN s : s[i] = x /\ \A j \in 1..(i - 1) : s[j] # x

Reverse(s) == [i \in 1..Len(s) |-> s[Len(s) + 1 - i]]

\* every order in which Python may iterate a set or dict of task names
Orders == {s \in [1..Cardinality(TaskNames) -> TaskNames] : NoDuplicates(s)}

\* the elements of S in the iteration order ord
Iterate(S, ord) == SelectSeq(ord, LAMBDA x : x \in S)

\* ------------------------------------------------------- domain entities
\* Task.__post_init__: a task never names itself as a prerequisite
TaskValid(name, dependencies) == name \notin dependencies

\* Build.__post_init__: a non-empty member list without duplicates
BuildValid(members) == Len(members) > 0 /\ NoDuplicates(members)

\* every task universe over TaskNames: any subset stored, any prerequisite sets
Universes == {t \in UNION {[D -> SUBSET TaskNames] : D \in SUBSET TaskNames} : \A n \in DOMAIN t : TaskValid(n, t[n])}

\* every member list over TaskNames
MemberLists == {s \in UNION {[1..n -> TaskNames] : n \in 1..Cardinality(TaskNames)} : BuildValid(s)}

\* ------------------------------------------------------- result records
\* what an operation returned or raised: kind names the result type or the
\* exception class, calls lists the collaborators the operation invoked
\* the arguments of a resolution request that the result does not show
NoArgs == [build_name |-> "", members |-> <<>>, use_cache |-> FALSE, get_up |-> TRUE, set_up |-> TRUE, fault |-> "none"]

\* saved lists the build statuses the operation saved, in order
NoRet == [kind |-> "none", tasks |-> <<>>, has_cycles |-> FALSE, cycle |-> <<>>, missing |-> <<>>, cycles |-> <<>>, calls |-> <<>>, saved |-> <<>>, status |-> "", args |-> NoArgs]

\* the background job before it is scheduled
NoJob == [state |-> "idle", build_name |-> "", algorithm |-> "kahn", retries |-> 0, outcomes |-> <<>>]

\* a SortedTaskList with has_cycles = False
Sorted(list, calls) == [NoRet EXCEPT !.kind = "SortedTaskList", !.tasks = list, !.calls = calls]

Raise(kind, calls) == [NoRet EXCEPT !.kind = kind, !.calls = calls]

\* --------------------------------------------------- validate_dependencies
\* slip: only the members are looked up, their prerequisites are not
MissingMemberOnly(task_name, universe, ord) ==
    IF task_name \notin DOMAIN universe THEN <<task_name>> ELSE <<>>

\* the names appended to missing_deps for one member of the build
MissingOf(task_name, universe, ord) ==
    IF task_name \notin DOMAIN universe THEN <<task_name>>
    ELSE Iterate(universe[task_name] \ DOMAIN universe, ord)

RECURSIVE MissingDeps(_, _, _, _)
\* the list missing_deps after the loop over build.tasks from member i on
MissingDeps(members, universe, ord, i) ==
    IF i > Len(members) THEN <<>>
    ELSE MissingOf(members[i], universe, ord) \o MissingDeps(members, universe, ord, i + 1)

\* slip: missing_deps returned as collected, without list(set(...))
ListAsCollected(xs, ord) == xs

\* list(set(xs)): the distinct elements, in set iteration order
ListOfSet(xs, ord) == Iterate(Range(xs), ord)

validate_dependencies(members, universe, ord) ==
    ListOfSet(MissingDeps(members, universe, ord, 1), ord)

\* ------------------------------------------------------------ detect_cycles
\* the state the nested function shares with detect_cycles
NewSearch == [visited |-> {}, rec_stack |-> {}, cycles |-> <<>>]

\* slip: the whole path is reported, not its part from cycle_start on
WholePath(path, task_name) == Append(path, task_name)

\* path[cycle_start:] + [task_name]
StackSuffix(path, task_name) == SubSeq(path, Index(path, task_name), Len(path)) \o <<task_name>>

\* slip: the loop over the prerequisites stops after the first one
FirstDepOnly(universe, task_name, ord) ==
    IF universe[task_name] \cap DOMAIN universe = {} THEN <<>>
    ELSE <<Head(Iterate(universe[task_name] \cap DOMAIN universe, ord))>>

\* the prerequisites the search follows: those present in the examined tasks
FollowedDeps(universe, task_name, ord) == Iterate(universe[task_name] \cap DOMAIN universe, ord)

RECURSIVE dfs_cycle_detection(_, _, _, _, _)
RECURSIVE CycleLoop(_, _, _, _, _, _)
dfs_cycle_detection(universe, ord, task_name, path, st) ==
    IF task_name \in st.rec_stack
    THEN [st EXCEPT !.cycles = Append(@, StackSuffix(path, task_name))]
    ELSE IF task_name \in st.visited THEN st
    ELSE LET entered == [st EXCEPT !.visited = @ \cup {task_name}, !.rec_stack = @ \cup {task_name}]
             after == CycleLoop(universe, ord, FollowedDeps(universe, task_name, ord), 1, Append(path, task_name), entered)
         IN  [after EXCEPT !.rec_stack = @ \ {task_name}]

\* for dep in task.dependencies: if dep in tasks: dfs_cycle_detection(dep, path[:])
CycleLoop(universe, ord, deps, i, path, st) ==
    IF i > Len(deps) THEN st
    ELSE CycleLoop(universe, ord, deps, i + 1, path, dfs_cycle_detection(universe, ord, deps[i], path, st))

\* slip: the search starts from the first task only
FirstRootOnly(universe, ord, roots, i, st) ==
    IF roots = <<>> THEN st ELSE dfs_cycle_detection(universe, ord, roots[1], <<>>, st)

RECURSIVE CycleRoots(_, _, _, _, _)
\* for task_name in tasks: if task_name not in visited: dfs_cycle_detection(task_name, [])
CycleRoots(universe, ord, roots, i, st) ==
    IF i > Len(roots) THEN st
    ELSE IF roots[i] \in st.visited THEN CycleRoots(universe, ord, roots, i + 1, st)
    ELSE CycleRoots(universe, ord, roots, i + 1, dfs_cycle_detection(universe, ord, roots[i], <<>>, st))

\* dictOrd: the order of the dict tasks; setOrd: the order of the prerequisite sets
detect_cycles(universe, dictOrd, setOrd) ==
    CycleRoots(universe, setOrd, Iterate(DOMAIN universe, dictOrd), 1, NewSearch).cycles

\* slip: the subgraph holds the tasks that no task of task_names waits for
SubgraphOfLeaves(task_names, universe, namesOrd, setOrd) ==
    detect_cycles([n \in {x \in task_names \cap DOMAIN universe : \A y \in task_names \cap DOMAIN universe : x \notin universe[y]} |-> universe[n]], namesOrd, setOrd)

\* {name: tasks[name] for name in task_names if name in tasks}, then detect_cycles
\* (the dict is filled in the iteration order of the set task_names)
_find_cycles_in_subgraph(task_names, universe, namesOrd, setOrd) ==
    detect_cycles([n \in task_names \cap DOMAIN universe |-> universe[n]], namesOrd, setOrd)

\* --------------------------------------------------------------- _kahn_sort
\* task.dependencies.intersection(build_tasks)
BuildDeps(universe, build_tasks, task_name) == universe[task_name] \cap build_tasks

\* in_degree after the first loop of _kahn_sort
InDegree(members, universe) ==
    [n \in Range(members) |-> Cardinality(BuildDeps(universe, Range(members), n))]

\* graph after the first loop: the members that depend on each member
Dependents(members, universe) ==
    [d \in Range(members) |-> {n \in Range(members) : d \in BuildDeps(universe, Range(members), n)}]

\* deque([task for task in build.tasks if in_degree[task] == 0])
InitialQueue(members, in_degree) == SelectSeq(members, LAMBDA n : in_degree[n] = 0)

\* in_degree after `in_degree[neighbor] -= 1` for every neighbor of current
Decrement(in_degree, neighbors) ==
    [n \in DOMAIN in_degree |-> IF n \in neighbors THEN in_degree[n] - 1 ELSE in_degree[n]]

\* slip: every neighbor is appended, the test in_degree[neighbor] == 0 forgotten
ReadyUntested(in_degree, neighbors, ord) == Iterate(neighbors, ord)

\* the neighbors appended to the queue, in the order the set graph[current] is iterated
Ready(in_degree, neighbors, ord) ==
    SelectSeq(Iterate(neighbors, ord), LAMBDA n : Decrement(in_degree, neighbors)[n] = 0)

RECURSIVE KahnLoop(_, _, _, _, _)
\* while queue: current = queue.popleft(); result.append(current); ...
KahnLoop(queue, result, in_degree, graph, ord) ==
    IF queue = <<>> THEN result
    ELSE LET current == Head(queue)
         IN  KahnLoop(Tail(queue) \o Ready(in_degree, graph[current], ord),
                      Append(result, current),
                      Decrement(in_degree, graph[current]), graph, ord)

\* slip: the cycles are looked for among the sorted tasks, not the remaining ones
KahnFailureOverSorted(members, universe, result, ord) ==
    IF _find_cycles_in_subgraph(Range(result), universe, ord, ord) # <<>>
    THEN [Raise("CircularDependencyException", <<"_kahn_sort", "detect_cycles">>) EXCEPT !.cycle = _find_cycles_in_subgraph(Range(result), universe, ord, ord)[1]]
    ELSE Raise("TopologicalSortException", <<"_kahn_sort", "detect_cycles">>)

\* the branch taken when len(result) != len(build.tasks)
KahnFailure(members, universe, result, ord) ==
    LET remaining_tasks == Range(members) \ Range(result)
        cycles == _find_cycles_in_subgraph(remaining_tasks, universe, ord, ord)
    IN  IF cycles # <<>>
        THEN [Raise("CircularDependencyException", <<"_kahn_sort", "detect_cycles">>) EXCEPT !.cycle = cycles[1]]
        ELSE Raise("TopologicalSortException", <<"_kahn_sort", "detect_cycles">>)

\* result when the while loop of _kahn_sort ends
KahnResult(members, universe, ord) ==
    KahnLoop(InitialQueue(members, InDegree(members, universe)), <<>>,
             InDegree(members, universe), Dependents(members, universe), ord)

\* slip: the result is returned without the test len(result) != len(build.tasks)
KahnUnchecked(members, universe, ord) ==
    Sorted(KahnResult(members, universe, ord), <<"_kahn_sort">>)

_kahn_sort(members, universe, ord) ==
    IF Len(KahnResult(members, universe, ord)) # Len(members)
    THEN KahnFailure(members, universe, KahnResult(members, universe, ord), ord)
    ELSE Sorted(KahnResult(members, universe, ord), <<"_kahn_sort">>)

\* ---------------------------------------------------------------- _dfs_sort
\* visited, rec_stack and result of _dfs_sort; raised holds the cycle of a
\* CircularDependencyException on its way up the recursion (empty: none)
NewVisit == [visited |-> {}, rec_stack |-> {}, result |-> <<>>, raised |-> <<>>]

\* list(reversed(result))
Finish(result) == Reverse(result)

RECURSIVE dfs_visit(_, _, _, _, _, _)
RECURSIVE VisitLoop(_, _, _, _, _, _, _)
dfs_visit(universe, build_tasks, ord, task_name, path, st) ==
    IF st.raised # <<>> THEN st
    ELSE IF task_name \in st.rec_stack
    THEN [st EXCEPT !.raised = StackSuffix(path, task_name)]
    ELSE IF task_name \in st.visited THEN st
    ELSE LET entered == [st EXCEPT !.visited = @ \cup {task_name}, !.rec_stack = @ \cup {task_name}]
             build_deps == Iterate(BuildDeps(universe, build_tasks, task_name), ord)
             after == VisitLoop(universe, build_tasks, ord, build_deps, 1, Append(path, task_name), entered)
         IN  IF after.raised # <<>> THEN after
             ELSE [after EXCEPT !.rec_stack = @ \ {task_name}, !.result = Append(@, task_name)]

\* for dep in build_deps: dfs_visit(dep, path[:])
VisitLoop(universe, build_tasks, ord, deps, i, path, st) ==
    IF i > Len(deps) \/ st.raised # <<>> THEN st
    ELSE VisitLoop(universe, build_tasks, ord, deps, i + 1, path,
                   dfs_visit(universe, build_tasks, ord, deps[i], path, st))

RECURSIVE VisitRoots(_, _, _, _, _)
\* for task_name in build.tasks: if task_name not in visited: dfs_visit(task_name, [])
VisitRoots(universe, members, ord, i, st) ==
    IF i > Len(members) \/ st.raised # <<>> THEN st
    ELSE IF members[i] \in st.visited THEN VisitRoots(universe, members, ord, i + 1, st)
    ELSE VisitRoots(universe, members, ord, i + 1,
                    dfs_visit(universe, Range(members), ord, members[i], <<>>, st))

_dfs_sort(members, universe, ord) ==
    LET st == VisitRoots(universe, members, ord, 1, NewVisit)
    IN  IF st.raised # <<>>
        THEN [Raise("CircularDependencyException", <<"_dfs_sort">>) EXCEPT !.cycle = st.raised]
        ELSE Sorted(Finish(st.result), <<"_dfs_sort">>)

\* --------------------------------------------------------------- sort_tasks
\* the except clauses of sort_tasks: CircularDependencyException is re-raised,
\* any other exception becomes a TopologicalSortException
Translate(r) ==
    IF r.kind \in {"SortedTaskList", "CircularDependencyException"} THEN r
    ELSE Raise("TopologicalSortException", r.calls)

sort_tasks(members, universe, alg, ord) ==
    LET missing_dependencies == validate_dependencies(members, universe, ord)
        r == Translate(IF DefaultKahn(alg) = KAHN THEN _kahn_sort(members, universe, ord)
                       ELSE _dfs_sort(members, universe, ord))
    IN  IF missing_dependencies # <<>>
        THEN [Raise("TaskNotFoundException", <<"validate_dependencies">>) EXCEPT !.missing = missing_dependencies]
        ELSE [r EXCEPT !.calls = <<"validate_dependencies">> \o @]

\* ------------------------------------------------- CacheService (sorted)
\* sorted(names)
SortNames(S) == Iterate(S, NameOrder)

\* slip: the digest covers the member list only, not the prerequisites
MembersOnlyHash(members, loaded) ==
    [build_tasks |-> SortNames(Range(members)), task_dependencies |-> <<>>]

\* the configuration _config_hash digests (MD5 taken as collision-free)
_config_hash(members, loaded) ==
    [build_tasks |-> SortNames(Range(members)),
     task_dependencies |-> [n \in DOMAIN loaded |-> SortNames(loaded[n])]]

_sorted_tasks_cache_key(build_name, alg, config_hash) == <<"sorted", build_name, alg, config_hash>>

\* Python values with their types
PyValue(type, value) == [type |-> type, value |-> value]

\* the dict cache_sorted_tasks builds from a SortedTaskList
CacheData(build_name, r, alg) ==
    [build_name |-> PyValue("str", build_name),
     tasks |-> PyValue("list", r.tasks),
     algorithm_used |-> PyValue("str", alg),
     execution_time_ms |-> PyValue("float", 0),
     has_cycles |-> PyValue("bool", r.has_cycles),
     cycle_details |-> PyValue("NoneType", "None")]

\* json.dumps(value, default=str): what JSON has no type for is written as text
JsonDumps(data) ==
    [k \in DOMAIN data |->
        CASE data[k].type \in {"list", "tuple"} -> PyValue("array", data[k].value)
          [] data[k].type = "bool" -> PyValue("boolean", data[k].value)
          [] data[k].type \in {"float", "int"} -> PyValue("number", data[k].value)
          [] data[k].type = "NoneType" -> PyValue("null", "null")
          [] OTHER -> PyValue("string", data[k].value)]

\* a JSON document is a mapping from field names to values, or a single value
IsMapping(doc) == "type" \notin DOMAIN doc

\* the Python value of a JSON value; text that is not JSON ("raw") is handed
\* over as it is by the except clause of RedisClient.get
LoadValue(v) ==
    CASE v.type = "array" -> PyValue("list", v.value)
      [] v.type = "boolean" -> PyValue("bool", v.value)
      [] v.type = "number" -> PyValue("float", v.value)
      [] v.type = "null" -> PyValue("NoneType", "None")
      [] OTHER -> PyValue("str", v.value)

\* slip: the task list is read back in sorted order
JsonLoadsSorted(text) ==
    [k \in DOMAIN text |->
        IF text[k].type = "array" THEN PyValue("list", SortNames(Range(text[k].value)))
        ELSE LoadValue(text[k])]

\* json.loads(value)
JsonLoads(text) ==
    IF IsMapping(text) THEN [k \in DOMAIN text |-> LoadValue(text[k])] ELSE LoadValue(text)

\* bool(v) of a Python value
Truthy(v) ==
    CASE v.type = "list" -> v.value # <<>>
      [] v.type = "str" -> v.value # ""
      [] v.type = "float" -> v.value # 0
      [] v.type = "bool" -> v.value
      [] OTHER -> FALSE

\* `if cached_data:` for what RedisClient.get returned
Found(cached_data) ==
    IF IsMapping(cached_data) THEN DOMAIN cached_data # {} ELSE Truthy(cached_data)

\* redis.setex(key, ttl, value)
CacheSet(store, key, value) == [k \in DOMAIN store \cup {key} |-> IF k = key THEN value ELSE store[k]]

\* redis.delete(key), and the expiry of key
CacheDelete(store, key) == [k \in DOMAIN store \ {key} |-> store[k]]

\* the keys SortedTaskList(...) reads with cached_data[...]
EntryFields == {"build_name", "tasks", "algorithm_used", "execution_time_ms", "has_cycles"}

\* the exception SortedTaskList(build_name=cached_data["build_name"], ...)
\* ends with, "none" when the entity is built
SortedTaskListError(cached_data) ==
    IF ~IsMapping(cached_data) THEN "TypeError"
    ELSE IF ~(EntryFields \subseteq DOMAIN cached_data) THEN "KeyError"
    ELSE IF ~Truthy(cached_data["build_name"]) THEN "ValueError"
    ELSE IF /\ Truthy(cached_data["has_cycles"])
            /\ ~("cycle_details" \in DOMAIN cached_data /\ Truthy(cached_data["cycle_details"]))
    THEN "ValueError"
    ELSE IF cached_data["execution_time_ms"].type \notin {"float", "bool"} THEN "TypeError"
    ELSE IF cached_data["execution_time_ms"].type = "float" /\ cached_data["execution_time_ms"].value < 0
    THEN "ValueError"
    ELSE "none"

\* CacheService.get_sorted_tasks: the cached SortedTaskList, or kind "None";
\* up is FALSE when the call to the backing store fails
CacheService_get_sorted_tasks(store, build_name, alg, members, loaded, up) ==
    LET cache_key == _sorted_tasks_cache_key(build_name, alg, _config_hash(members, loaded))
        cached_data == JsonLoads(store[cache_key])
        error == SortedTaskListError(cached_data)
    IN  IF ~up \/ cache_key \notin DOMAIN store
        THEN [result |-> Raise("None", <<>>), store |-> store]
        ELSE IF ~Found(cached_data)
        THEN [result |-> Raise("None", <<>>), store |-> store]
        ELSE IF error \in {"KeyError", "TypeError"}
        THEN [result |-> Raise("None", <<>>), store |-> CacheDelete(store, cache_key)]
        ELSE IF error # "none"
        THEN [result |-> Raise(error, <<>>), store |-> store]
        ELSE [result |-> [Sorted(cached_data["tasks"].value, <<>>) EXCEPT !.has_cycles = cached_data["has_cycles"].value],
              store |-> store]

\* CacheService.cache_sorted_tasks: whether the entry was stored, and the store
CacheService_cache_sorted_tasks(store, build_name, sorted_tasks, alg, members, loaded, up) ==
    LET cache_key == _sorted_tasks_cache_key(build_name, alg, _config_hash(members, loaded))
    IN  IF up
        THEN [ok |-> TRUE, store |-> CacheSet(store, cache_key, JsonDumps(CacheData(build_name, sorted_tasks, alg)))]
        ELSE [ok |-> FALSE, store |-> store]

\* -------------------------------------------- BuildService.get_sorted_tasks
\* TaskRepository.get_tasks(names): the stored tasks among names
get_tasks(universe, names) == [n \in Range(names) \cap DOMAIN universe |-> universe[n]]

\* slip: the members are not compared with the loaded tasks
NoMissingTasks(members, loaded) == {}

\* set(build.tasks) - set(tasks.keys())
MissingTasks(members, loaded) == Range(members) \ DOMAIN loaded

\* slip: the result is not written to the cache
PopulateSkipped(store, build_name, sorted_tasks, alg, members, loaded, up) ==
    [ok |-> FALSE, store |-> store]

\* the call of cache_sorted_tasks that follows a successful sort
Populate(store, build_name, sorted_tasks, alg, members, loaded, up) ==
    CacheService_cache_sorted_tasks(store, build_name, sorted_tasks, alg, members, loaded, up)

\* slip: a failure of the backing store is raised to the caller
LookupRaising(store, build_name, alg, members, loaded, up) ==
    IF up THEN CacheService_get_sorted_tasks(store, build_name, alg, members, loaded, up)
    ELSE [result |-> Raise("ConnectionError", <<>>), store |-> store]

\* the call of get_sorted_tasks on the cache that precedes the sort
Lookup(store, build_name, alg, members, loaded, up) ==
    CacheService_get_sorted_tasks(store, build_name, alg, members, loaded, up)

\* the result of get_sorted_tasks and the cache it leaves; get_up and set_up
\* tell whether the backing store answers the lookup and the write
get_sorted_tasks(universe, stored, store, build_name, algorithm_arg, use_cache, get_up, set_up, ord) ==
    IF build_name \notin DOMAIN stored
    THEN [ret |-> Raise("BuildNotFoundException", <<"get_build">>), cache |-> store]
    ELSE LET members == stored[build_name]
             loaded == get_tasks(universe, members)
             missing_tasks == MissingTasks(members, loaded)
             alg == DefaultKahn(algorithm_arg)
             cached == Lookup(store, build_name, alg, members, loaded, get_up)
             before == IF use_cache THEN <<"get_build", "get_tasks", "cache.get_sorted_tasks">>
                       ELSE <<"get_build", "get_tasks">>
             looked == IF use_cache THEN cached.store ELSE store
             sorted_tasks == sort_tasks(members, loaded, alg, ord)
             written == Populate(looked, build_name, sorted_tasks, alg, members, loaded, set_up)
         IN  IF missing_tasks # {}
             THEN [ret |-> [Raise("TaskNotFoundException", <<"get_build", "get_tasks">>) EXCEPT !.missing = Iterate(missing_tasks, ord)],
                   cache |-> store]
             ELSE IF use_cache /\ cached.result.kind = "SortedTaskList"
             THEN [ret |-> [cached.result EXCEPT !.calls = before], cache |-> looked]
             ELSE IF use_cache /\ cached.result.kind # "None"
             THEN [ret |-> [cached.result EXCEPT !.calls = before], cache |-> looked]
             ELSE IF sorted_tasks.kind # "SortedTaskList"
             THEN [ret |-> [sorted_tasks EXCEPT !.calls = Append(before, "sort_tasks")], cache |-> looked]
             ELSE IF use_cache
             THEN [ret |-> [sorted_tasks EXCEPT !.calls = before \o <<"sort_tasks", "cache.cache_sorted_tasks">>],
                   cache |-> written.store]
             ELSE [ret |-> [sorted_tasks EXCEPT !.calls = Append(before, "sort_tasks")], cache |-> store]

\* ------------------------------------------------------------------ Init
\* nothing changed, requested or scheduled yet
Quiet ==
    /\ changes = 0
    /\ origin = <<>>
    /\ requests = <<>>
    /\ job = NoJob

Init ==
    /\ tasks \in Universes
    /\ builds \in UNION {[D -> MemberLists] : D \in SUBSET BuildNames}
    /\ cache = <<>>
    /\ op = "none"
    /\ algorithm = KAHN
    /\ ret = NoRet
    /\ status = [b \in DOMAIN builds |-> PENDING]
    /\ Quiet

\* TopologyService.detect_cycles(tasks) on the stored universe
DetectCycles(dictOrd, setOrd) ==
    /\ op' = "detect_cycles"
    /\ ret' = [NoRet EXCEPT !.kind = "cycles", !.cycles = detect_cycles(tasks, dictOrd, setOrd), !.calls = <<"detect_cycles">>]
    /\ UNCHANGED <<tasks, builds, cache, algorithm, otherVars>>

\* TopologyService.validate_dependencies(build, tasks)
ValidateDependencies(b, ord) ==
    /\ b \in DOMAIN builds
    /\ op' = "validate_dependencies"
    /\ ret' = [NoRet EXCEPT !.kind = "missing", !.missing = validate_dependencies(builds[b], tasks, ord), !.calls = <<"validate_dependencies">>]
    /\ UNCHANGED <<tasks, builds, cache, algorithm, otherVars>>

\* TopologyService.sort_tasks(build, tasks, algorithm)
SortTasks(b, alg, ord) ==
    /\ b \in DOMAIN builds
    /\ op' = "sort_tasks"
    /\ algorithm' = alg
    /\ ret' = sort_tasks(builds[b], tasks, alg, ord)
    /\ UNCHANGED <<tasks, builds, cache, otherVars>>

\* BuildService.get_sorted_tasks(build_name, algorithm, use_cache); without a
\* cache service use_cache has no effect, which is the case use_cache = FALSE
GetSortedTasks(b, alg, use_cache, get_up, set_up, ord) ==
    /\ op' = "get_sorted_tasks"
    /\ algorithm' = alg
    /\ LET r == get_sorted_tasks(tasks, builds, cache, b, alg, use_cache, get_up, set_up, ord)
       IN  /\ ret' = [r.ret EXCEPT !.args = [NoArgs EXCEPT !.build_name = b, !.use_cache = use_cache, !.get_up = get_up, !.set_up = set_up]]
           /\ cache' = r.cache
    /\ UNCHANGED <<tasks, builds, otherVars>>

\* the entry under key reaches its time to live (redis.setex)
Expire(key) ==
    /\ key \in DOMAIN cache
    /\ cache' = CacheDelete(cache, key)
    /\ origin' = [k \in DOMAIN origin \ {key} |-> origin[k]]
    /\ op' = "expire"
    /\ ret' = NoRet
    /\ UNCHANGED <<tasks, builds, algorithm, status, changes, requests, job>>

Next ==
    \/ \E dictOrd \in Orders, setOrd \in Orders : DetectCycles(dictOrd, setOrd)
    \/ \E b \in BuildNames, ord \in Orders : ValidateDependencies(b, ord)
    \/ \E b \in BuildNames, alg \in SortAlgorithm, ord \in Orders : SortTasks(b, alg, ord)

\* the topology engine applied to every build and universe over TaskNames
Spec == Init /\ [][Next]_vars

\* the caller has taken the result of the last operation
Return ==
    /\ op # "none"
    /\ op' = "none"
    /\ ret' = NoRet
    /\ UNCHANGED <<tasks, builds, cache, algorithm, otherVars>>

NextService ==
    \/ /\ op = "none"
       /\ \E b \in BuildNames, alg \in SortAlgorithm, ord \in Orders :
             GetSortedTasks(b, alg, FALSE, TRUE, TRUE, ord)
    \/ /\ op = "none"
       /\ \E b \in BuildNames, alg \in SortAlgorithm, get_up \in BOOLEAN, set_up \in BOOLEAN, ord \in Orders :
             GetSortedTasks(b, alg, TRUE, get_up, set_up, ord)
    \/ /\ op = "none"
       /\ \E key \in DOMAIN cache : Expire(key)
    \/ Return

\* resolution requests against a stored build and universe, with the result cache
SpecService == Init /\ [][NextService]_vars
\* ------------------------------------------------------------ SpecCycles
\* the task names of the universes of SpecCycles
CycleNames == {"a", "b", "c", "d", "e"}

\* largest prerequisite set of a task in the universes of SpecCycles
MaxPrerequisites == 2

CycleOrders == {s \in [1..Cardinality(CycleNames) -> CycleNames] : NoDuplicates(s)}

\* ------------------------------------------------------ graph vocabulary
RECURSIVE Grow(_, _, _)
\* the least set that contains S and the prerequisites among nodes of its elements
Grow(universe, nodes, S) ==
    LET T == S \cup UNION {universe[x] \cap nodes : x \in S}
    IN  IF T = S THEN S ELSE Grow(universe, nodes, T)

\* the tasks among nodes that n reaches by one or more prerequisite links
ReachableFrom(universe, nodes, n) == Grow(universe, nodes, universe[n] \cap nodes)

OnCycle(universe, nodes, n) == n \in ReachableFrom(universe, nodes, n)

\* the dependency graph restricted to nodes (stored tasks) has no cycle
Acyclic(universe, nodes) == \A n \in nodes : ~OnCycle(universe, nodes, n)

\* the names a build references that the universe does not hold
MissingReferences(members, universe) ==
    (Range(members) \ DOMAIN universe)
        \cup UNION {universe[m] \ DOMAIN universe : m \in Range(members) \cap DOMAIN universe}

ReferentiallySound(members, universe) == MissingReferences(members, universe) = {}

\* every member stands after each of its prerequisites that is a member
PrerequisitesFirst(members, universe, list) ==
    \A t \in Range(members) : \A p \in universe[t] \cap Range(members) :
        /\ t \in Range(list) /\ p \in Range(list)
        /\ Index(list, p) < Index(list, t)

\* b is a stored build, referentially sound, with an acyclic graph on its members
Sortable(b) ==
    /\ b \in DOMAIN builds
    /\ ReferentiallySound(builds[b], tasks)
    /\ Acyclic(tasks, Range(builds[b]))

\* ------------------------------------------------------------------ claims
\* C1: on a referentially sound build whose member graph is acyclic, sort_tasks
\* with KAHN returns a list in which every in-build prerequisite of a member
\* stands strictly before that member.
C1_KahnPrerequisitesFirst ==
    \A b \in BuildNames :
        (op = "sort_tasks" /\ algorithm = KAHN /\ Sortable(b))
            => (ret.kind = "SortedTaskList" /\ PrerequisitesFirst(builds[b], tasks, ret.tasks))

\* a Kahn result for three members, one of which waits for the two others
C1_Witness ==
    /\ op = "sort_tasks" /\ algorithm = KAHN /\ ret.kind = "SortedTaskList"
    /\ \E b \in DOMAIN builds : \E t \in Range(builds[b]) :
          Cardinality(tasks[t] \cap Range(builds[b])) = 2

\* C2: on a referentially sound build whose member graph is acyclic, sort_tasks
\* with DFS returns a valid topological order: every member after all of its
\* in-build prerequisites.
C2_DfsPrerequisitesFirst ==
    \A b \in BuildNames :
        (op = "sort_tasks" /\ algorithm = DFS /\ Sortable(b))
            => (ret.kind = "SortedTaskList" /\ PrerequisitesFirst(builds[b], tasks, ret.tasks))

\* C3: whenever sort_tasks returns, with either algorithm, the list is a
\* permutation of the build's members (same elements, same count, no
\* duplicates, nothing foreign) and has_cycles is false.
C3_ResultIsPermutation ==
    \A b \in DOMAIN builds :
        (op = "sort_tasks" /\ ret.kind = "SortedTaskList")
            => /\ Len(ret.tasks) = Len(builds[b])
               /\ Range(ret.tasks) = Range(builds[b])
               /\ NoDuplicates(ret.tasks)
               /\ ~ret.has_cycles

\* a DFS result for a two-member build one of whose members has a stored
\* prerequisite outside the build
C3_Witness ==
    /\ op = "sort_tasks" /\ algorithm = DFS /\ ret.kind = "SortedTaskList"
    /\ \E b \in DOMAIN builds :
          /\ Len(builds[b]) = 2
          /\ \E t \in Range(builds[b]) : tasks[t] \ Range(builds[b]) # {}

\* a cycle of the universe is reachable from a member by prerequisite links,
\* links to tasks outside the build included
CycleReachable(members, universe) ==
    \E m \in Range(members) : \E n \in DOMAIN universe :
        /\ n = m \/ n \in ReachableFrom(universe, DOMAIN universe, m)
        /\ OnCycle(universe, DOMAIN universe, n)

\* detect_cycles over the universe reports, for every iteration order, a cycle
\* through exactly the tasks of cycle
ReportsCycle(universe, cycle) ==
    \A dictOrd \in Orders, setOrd \in Orders :
        \E i \in DOMAIN detect_cycles(universe, dictOrd, setOrd) :
            Range(detect_cycles(universe, dictOrd, setOrd)[i]) = Range(cycle)

\* C4 as stated (here for referentially sound builds only): if a cycle is
\* reachable from the build's members, also through tasks outside the build,
\* sort_tasks fails with CircularDependencyException and detect_cycles over the
\* universe returns a list that contains that cycle.
C4_Original ==
    \A b \in DOMAIN builds :
        (op = "sort_tasks" /\ ReferentiallySound(builds[b], tasks) /\ CycleReachable(builds[b], tasks))
            => (ret.kind = "CircularDependencyException" /\ ReportsCycle(tasks, ret.cycle))

\* C4 amended: if a referentially sound build has a cycle among its members
\* (every link of the cycle joins two members), sort_tasks fails with
\* CircularDependencyException and detect_cycles over the universe returns a
\* non-empty list, for every iteration order.
C4_MemberCycleFails ==
    \A b \in DOMAIN builds :
        (op = "sort_tasks" /\ ReferentiallySound(builds[b], tasks) /\ ~Acyclic(tasks, Range(builds[b])))
            => /\ ret.kind = "CircularDependencyException"
               /\ \A dictOrd \in Orders, setOrd \in Orders : detect_cycles(tasks, dictOrd, setOrd) # <<>>

\* a Kahn failure on a two-member cycle, a third task being stored outside the build
C4_Witness ==
    /\ op = "sort_tasks" /\ algorithm = KAHN /\ ret.kind = "CircularDependencyException"
    /\ \E b \in DOMAIN builds : Len(builds[b]) = 2 /\ DOMAIN tasks = TaskNames

\* C5: detect_cycles returns the empty list exactly when the graph of the
\* universe (links to stored prerequisites) is acyclic, for every iteration
\* order of the universe and of the prerequisite sets.
C5_CyclesIffCyclic ==
    op = "detect_cycles" => ((ret.cycles = <<>>) <=> Acyclic(tasks, DOMAIN tasks))

\* a cycle reported in a universe where a task also names an absent prerequisite
C5_Witness ==
    /\ op = "detect_cycles" /\ ret.cycles # <<>>
    /\ \E n \in DOMAIN tasks : tasks[n] \ DOMAIN tasks # {}

\* C7: two calls of sort_tasks with KAHN on the same build and universe return
\* the same task sequence, whatever the order in which the set of dependents
\* of a dequeued task is iterated.
C7_KahnReproducible ==
    [][(op = "sort_tasks" /\ algorithm = KAHN /\ op' = "sort_tasks" /\ algorithm' = KAHN)
        => ret'.tasks = ret.tasks]_vars

\* C8: on a build with a missing reference sort_tasks fails with
\* TaskNotFoundException naming exactly the missing names, never with
\* CircularDependencyException, and runs nothing but the validation.
C8_MissingReferenceFirst ==
    \A b \in DOMAIN builds :
        (op = "sort_tasks" /\ ~ReferentiallySound(builds[b], tasks))
            => /\ ret.kind = "TaskNotFoundException"
               /\ Range(ret.missing) = MissingReferences(builds[b], tasks)
               /\ ret.calls = <<"validate_dependencies">>

\* a TaskNotFoundException although the stored members form a cycle
C8_Witness ==
    /\ op = "sort_tasks" /\ ret.kind = "TaskNotFoundException"
    /\ \E b \in DOMAIN builds : \E n \in Range(builds[b]) \cap DOMAIN tasks :
          OnCycle(tasks, Range(builds[b]) \cap DOMAIN tasks, n)

\* C9: validate_dependencies returns, without duplicates, exactly the names
\* referenced but absent (absent members, absent prerequisites of stored
\* members), never a stored task, and nothing iff the build is sound.
C9_ValidateExact ==
    \A b \in DOMAIN builds :
        op = "validate_dependencies"
            => /\ NoDuplicates(ret.missing)
               /\ Range(ret.missing) = MissingReferences(builds[b], tasks)
               /\ Range(ret.missing) \cap DOMAIN tasks = {}
               /\ (ret.missing = <<>>) <=> ReferentiallySound(builds[b], tasks)

\* two members name the same absent prerequisite, reported once
C9_Witness ==
    /\ op = "validate_dependencies" /\ Len(ret.missing) = 1
    /\ \E b \in DOMAIN builds : \E m, n \in Range(builds[b]) \cap DOMAIN tasks :
          m # n /\ ret.missing[1] \in tasks[m] \cap tasks[n]
\* ------------------------------------------------- two disjoint cycles
\* for every stored task, the stored tasks it reaches
Reach(universe) == [n \in DOMAIN universe |-> ReachableFrom(universe, DOMAIN universe, n)]

\* the stored tasks that lie on a cycle, given R = Reach(universe)
CycleTasks(R) == {n \in DOMAIN R : n \in R[n]}

\* the cycle tasks grouped by mutual reachability
Components(R) == {{m \in CycleTasks(R) : m \in R[n] /\ n \in R[m]} : n \in CycleTasks(R)}

\* the only cycles of the universe are two vertex-disjoint simple cycles
TwoDisjointCycles(universe) ==
    LET R == Reach(universe)
    IN  /\ Cardinality(Components(R)) = 2
        /\ \A c \in Components(R) : \A n \in c : Cardinality(universe[n] \cap c) = 1

\* the prerequisite sets of the universes of SpecCycles
CycleDependencySets == {S \in SUBSET CycleNames : Cardinality(S) <= MaxPrerequisites}

\* universes over CycleNames whose only cycles are two disjoint simple cycles;
\* the other tasks are absent, independent, or depend on any task
InitCycles ==
    /\ \E D \in SUBSET CycleNames : tasks \in [D -> CycleDependencySets]
    /\ \A n \in DOMAIN tasks : TaskValid(n, tasks[n])
    /\ TwoDisjointCycles(tasks)
    /\ builds = <<>>
    /\ cache = <<>>
    /\ op = "none"
    /\ algorithm = KAHN
    /\ ret = NoRet
    /\ status = <<>>
    /\ Quiet

\* a single call of detect_cycles; the universes are closed under renaming, so
\* every dict order against one set order covers every pair of the two orders
NextCycles ==
    /\ op = "none"
    /\ \E dictOrd \in CycleOrders : DetectCycles(dictOrd, NameOrder)

SpecCycles == InitCycles /\ [][NextCycles]_vars

\* C6: on a universe whose only cycles are two vertex-disjoint simple cycles a
\* single call of detect_cycles returns exactly two cycles, one through the
\* tasks of each, whatever the order in which the tasks are visited.
C6_TwoDisjointCyclesFound ==
    (op = "detect_cycles" /\ TwoDisjointCycles(tasks))
        => /\ Len(ret.cycles) = 2
           /\ {Range(ret.cycles[i]) : i \in DOMAIN ret.cycles} = Components(Reach(tasks))

\* both cycles found although a task outside them depends on a member of each
C6_Witness ==
    /\ op = "detect_cycles" /\ Len(ret.cycles) = 2
    /\ \E n \in DOMAIN tasks \ CycleTasks(Reach(tasks)) :
          \A c \in Components(Reach(tasks)) : tasks[n] \cap c # {}
\* C10: for a stored build whose members are stored and acyclic and one of
\* whose members has a prerequisite that is stored but is not a member,
\* BuildService.get_sorted_tasks returns an ordering of the members instead of
\* failing with TaskNotFoundException.
C10_ExternalPrerequisiteAccepted ==
    \A b \in DOMAIN builds :
        (/\ op = "get_sorted_tasks"
         /\ ReferentiallySound(builds[b], tasks)
         /\ Acyclic(tasks, Range(builds[b]))
         /\ \E m \in Range(builds[b]) : tasks[m] \ Range(builds[b]) # {})
            => (ret.kind = "SortedTaskList" /\ Range(ret.tasks) = Range(builds[b]))
\* ------------------------------------------------- exception constructors
\* CircularDependencyException(cycle): __init__ evaluates cycle + [cycle[0]],
\* which fails on an empty list and on a str
CircularDependencyException(cycle, calls) ==
    IF cycle.type = "list" /\ cycle.value # <<>>
    THEN [Raise("CircularDependencyException", calls) EXCEPT !.cycle = cycle.value]
    ELSE IF cycle.type = "list" THEN Raise("IndexError", calls)
    ELSE Raise("TypeError", calls)

\* ---------------------------------------- BuildService.get_topological_sort
get_topological_sort(universe, stored, build_name, dictOrd, setOrd) ==
    IF build_name \notin DOMAIN stored
    THEN Raise("BuildNotFoundException", <<"get_build">>)
    ELSE LET cycles == detect_cycles(universe, dictOrd, setOrd)
         IN  IF cycles # <<>>
             THEN CircularDependencyException(PyValue("str", cycles), <<"get_build", "get_all_tasks", "detect_cycles">>)
             ELSE [sort_tasks(stored[build_name], universe, None, setOrd)
                      EXCEPT !.calls = <<"get_build", "get_all_tasks", "detect_cycles", "sort_tasks">>]

\* BuildService.get_topological_sort(build_name), the handler of POST /get_tasks
GetTopologicalSort(b, dictOrd, setOrd) ==
    /\ op' = "get_topological_sort"
    /\ algorithm' = None
    /\ ret' = [get_topological_sort(tasks, builds, b, dictOrd, setOrd) EXCEPT !.args = [NoArgs EXCEPT !.build_name = b]]
    /\ UNCHANGED <<tasks, builds, cache, otherVars>>

\* ----------------------------- BuildService.create_build and update_build
\* BuildRepository.save_build(build): the build is inserted or overwritten
save_build(stored, build_name, value) ==
    [k \in DOMAIN stored \cup {build_name} |-> IF k = build_name THEN value ELSE stored[k]]

\* slip: a build with cyclic members is saved all the same
CyclesIgnored(loaded, ord) == <<>>

\* detect_cycles over the loaded member tasks
MemberCycles(loaded, ord) == detect_cycles(loaded, ord, ord)

\* the checks create_build and update_build share, and the save that follows
\* them: the result, the build repository and the build statuses
ValidateAndSave(universe, stored, statuses, build_name, members, calls, ord) ==
    LET loaded == get_tasks(universe, members)
        missing_tasks == MissingTasks(members, loaded)
        cycles == MemberCycles(loaded, ord)
        missing_deps == validate_dependencies(members, loaded, ord)
        unchanged == [builds |-> stored, status |-> statuses]
    IN  IF missing_tasks # {}
        THEN [ret |-> [Raise("TaskNotFoundException", Append(calls, "get_tasks")) EXCEPT !.missing = Iterate(missing_tasks, ord)]] @@ unchanged
        ELSE IF cycles # <<>>
        THEN [ret |-> CircularDependencyException(PyValue("list", cycles[1]), calls \o <<"get_tasks", "detect_cycles">>)] @@ unchanged
        ELSE IF missing_deps # <<>>
        THEN [ret |-> [Raise("TaskNotFoundException", calls \o <<"get_tasks", "detect_cycles", "validate_dependencies">>) EXCEPT !.missing = missing_deps]] @@ unchanged
        ELSE [ret |-> [Raise("Build", calls \o <<"get_tasks", "detect_cycles", "validate_dependencies", "save_build">>) EXCEPT !.tasks = members, !.saved = <<PENDING>>],
              builds |-> save_build(stored, build_name, members),
              status |-> save_build(statuses, build_name, PENDING)]

create_build(universe, stored, statuses, build_name, members, ord) ==
    ValidateAndSave(universe, stored, statuses, build_name, members, <<>>, ord)

update_build(universe, stored, statuses, build_name, members, ord) ==
    IF build_name \notin DOMAIN stored
    THEN [ret |-> Raise("BuildNotFoundException", <<"get_build">>), builds |-> stored, status |-> statuses]
    ELSE ValidateAndSave(universe, stored, statuses, build_name, members, <<"get_build">>, ord)

\* BuildService.create_build(build), the build in the status PENDING
CreateBuild(b, members, ord) ==
    /\ op' = "create_build"
    /\ LET r == create_build(tasks, builds, status, b, members, ord)
       IN  /\ ret' = [r.ret EXCEPT !.args = [NoArgs EXCEPT !.build_name = b, !.members = members]]
           /\ builds' = r.builds
           /\ status' = r.status
    /\ UNCHANGED <<tasks, cache, algorithm, changes, origin, requests, job>>

\* BuildService.update_build(build), the build in the status PENDING
UpdateBuild(b, members, ord) ==
    /\ op' = "update_build"
    /\ LET r == update_build(tasks, builds, status, b, members, ord)
       IN  /\ ret' = [r.ret EXCEPT !.args = [NoArgs EXCEPT !.build_name = b, !.members = members]]
           /\ builds' = r.builds
           /\ status' = r.status
    /\ UNCHANGED <<tasks, cache, algorithm, changes, origin, requests, job>>

\* ------------------------------------------------ BuildService.execute_build
\* the repository calls of the try block that may raise
Faults == {"none", "get_tasks", "save_task", "save_build"}

\* slip: the except branch re-raises without saving the build
StatusLeftRunning(raised) == IF raised THEN RUNNING ELSE COMPLETED

\* the status of the last save: COMPLETED at the end of the try block, FAILED
\* in the except branch
StatusAfter(raised) == IF raised THEN FAILED ELSE COMPLETED

\* the result of execute_build and the build statuses it leaves; fault names
\* the repository call after the sort that raises, if any
execute_build(universe, stored, statuses, build_name, alg, fault, ord) ==
    IF build_name \notin DOMAIN stored
    THEN [ret |-> Raise("BuildNotFoundException", <<"get_build">>), status |-> statuses]
    ELSE LET sorted_tasks == get_sorted_tasks(universe, stored, <<>>, build_name, alg, FALSE, TRUE, TRUE, ord).ret
             raised == sorted_tasks.kind # "SortedTaskList" \/ fault # "none"
             outcome == IF sorted_tasks.kind # "SortedTaskList" THEN sorted_tasks
                        ELSE IF fault # "none" THEN Raise("DatabaseError", <<>>)
                        ELSE [Raise("Build", <<>>) EXCEPT !.tasks = sorted_tasks.tasks]
         IN  [ret |-> [outcome EXCEPT !.saved = <<RUNNING, StatusAfter(raised)>>,
                                     !.calls = <<"get_build", "save_build", "get_sorted_tasks", "save_build">>],
              status |-> save_build(statuses, build_name, StatusAfter(raised))]

\* BuildService.execute_build(build_name, algorithm)
ExecuteBuild(b, alg, fault, ord) ==
    /\ op' = "execute_build"
    /\ algorithm' = alg
    /\ LET r == execute_build(tasks, builds, status, b, alg, fault, ord)
       IN  /\ ret' = [r.ret EXCEPT !.args = [NoArgs EXCEPT !.build_name = b, !.fault = fault]]
           /\ status' = r.status
    /\ UNCHANGED <<tasks, builds, cache, changes, origin, requests, job>>

NextLifecycle ==
    \/ /\ op = "none"
       /\ \E b \in BuildNames, dictOrd \in Orders, setOrd \in Orders : GetTopologicalSort(b, dictOrd, setOrd)
    \/ /\ op = "none"
       /\ \E b \in BuildNames, members \in MemberLists, ord \in Orders : CreateBuild(b, members, ord)
    \/ /\ op = "none"
       /\ \E b \in BuildNames, members \in MemberLists, ord \in Orders : UpdateBuild(b, members, ord)
    \/ /\ op = "none"
       /\ \E b \in BuildNames, alg \in SortAlgorithm \cup {None}, fault \in Faults, ord \in Orders :
             ExecuteBuild(b, alg, fault, ord)

\* one build operation on every stored configuration: Init holds every build
\* and universe an earlier operation can have left, and no operation reads a
\* build status
SpecLifecycle == Init /\ [][NextLifecycle]_vars

\* C11: when the stored task universe contains a dependency cycle,
\* get_topological_sort of a stored build fails with
\* CircularDependencyException (carrying the cycle) and with no other error.
C11_CycleRaisesCircular ==
    (/\ op = "get_topological_sort"
     /\ ret.args.build_name \in DOMAIN builds
     /\ ~Acyclic(tasks, DOMAIN tasks))
        => (ret.kind = "CircularDependencyException" /\ ret.cycle # <<>>)
\* C12: get_sorted_tasks checks existence first.  For an absent build it
\* fails with BuildNotFoundException having loaded no task; for a stored build
\* with absent members it fails with TaskNotFoundException naming exactly the
\* absent members; in both cases it reads and writes no cache entry and does
\* not call the topology engine.
C12_ExistenceFirst ==
    [][op' = "get_sorted_tasks" =>
        LET b == ret'.args.build_name
        IN  /\ b \notin DOMAIN builds =>
                  /\ ret'.kind = "BuildNotFoundException"
                  /\ ret'.calls = <<"get_build">>
                  /\ cache' = cache
            /\ (b \in DOMAIN builds /\ Range(builds[b]) \ DOMAIN tasks # {}) =>
                  /\ ret'.kind = "TaskNotFoundException"
                  /\ Range(ret'.missing) = Range(builds[b]) \ DOMAIN tasks
                  /\ ret'.calls = <<"get_build", "get_tasks">>
                  /\ cache' = cache]_vars

\* a cached request refused for two absent members, a third being stored
C12_Witness ==
    /\ op = "get_sorted_tasks" /\ ret.kind = "TaskNotFoundException"
    /\ ret.args.use_cache /\ Len(ret.missing) = 2
    /\ ret.calls = <<"get_build", "get_tasks">>
    /\ Len(builds[ret.args.build_name]) = 3

\* the cache key of a request for the stored build b with algorithm alg
RequestKey(b, alg) ==
    _sorted_tasks_cache_key(b, DefaultKahn(alg), _config_hash(builds[b], get_tasks(tasks, builds[b])))

\* how often name occurs in the list calls
Count(calls, name) == Cardinality({i \in DOMAIN calls : calls[i] = name})

\* C13: cache-aside ordering of get_sorted_tasks on a stored build whose
\* members are all stored.  With caching, a hit is returned without a call of
\* sort_tasks; on a miss sort_tasks is called exactly once and, the write
\* succeeding, its result is in the cache when it is returned; when sort_tasks
\* raises nothing is written; without caching the cache is neither read nor
\* written.
C13_CacheAside ==
    [][(/\ op' = "get_sorted_tasks"
        /\ ret'.args.build_name \in DOMAIN builds
        /\ Range(builds[ret'.args.build_name]) \subseteq DOMAIN tasks) =>
        LET a == ret'.args
            key == RequestKey(a.build_name, algorithm')
            hit == a.get_up /\ key \in DOMAIN cache
        IN  /\ (a.use_cache /\ hit) =>
                  /\ ret'.kind = "SortedTaskList"
                  /\ ret'.calls = <<"get_build", "get_tasks", "cache.get_sorted_tasks">>
                  /\ cache' = cache
            /\ (a.use_cache /\ ~hit) =>
                  /\ Count(ret'.calls, "sort_tasks") = 1
                  /\ ret'.kind = "SortedTaskList" =>
                        /\ ret'.calls = <<"get_build", "get_tasks", "cache.get_sorted_tasks", "sort_tasks", "cache.cache_sorted_tasks">>
                        /\ a.set_up => (key \in DOMAIN cache' /\ JsonLoads(cache'[key])["tasks"].value = ret'.tasks)
                  /\ ret'.kind # "SortedTaskList" =>
                        /\ cache' = cache
                        /\ ret'.calls = <<"get_build", "get_tasks", "cache.get_sorted_tasks", "sort_tasks">>
            /\ ~a.use_cache =>
                  /\ cache' = cache
                  /\ Count(ret'.calls, "cache.get_sorted_tasks") = 0
                  /\ Count(ret'.calls, "cache.cache_sorted_tasks") = 0
                  /\ Count(ret'.calls, "sort_tasks") = 1]_vars

\* a cache hit for a build of three members
C13_Witness ==
    /\ op = "get_sorted_tasks" /\ ret.kind = "SortedTaskList"
    /\ ret.calls = <<"get_build", "get_tasks", "cache.get_sorted_tasks">>
    /\ Len(ret.tasks) = 3

\* the fields of a result that its caller sees
Outcome(r) == [kind |-> r.kind, tasks |-> r.tasks, has_cycles |-> r.has_cycles, cycle |-> r.cycle, missing |-> r.missing]

\* a call to the backing store failed during the request
StoreCallFailed ==
    \/ ~ret.args.get_up
    \/ ~ret.args.set_up /\ Count(ret.calls, "cache.cache_sorted_tasks") = 1

\* C16: when a call to the backing store fails during a cached request, the
\* request neither raises a store error nor changes its answer: it returns a
\* result that get_sorted_tasks computes with no cache at all.
C16_StoreFailureIsMiss ==
    (op = "get_sorted_tasks" /\ ret.args.use_cache /\ StoreCallFailed)
        => \E ord \in Orders :
              Outcome(ret) = Outcome(get_sorted_tasks(tasks, builds, <<>>, ret.args.build_name, algorithm, FALSE, TRUE, TRUE, ord).ret)

\* a sorted result of three members returned while lookup and write both failed
C16_Witness ==
    /\ op = "get_sorted_tasks" /\ ret.kind = "SortedTaskList"
    /\ ret.args.use_cache /\ ~ret.args.get_up /\ ~ret.args.set_up
    /\ Count(ret.calls, "cache.cache_sorted_tasks") = 1
    /\ Len(ret.tasks) = 3
\* the last element of a non-empty list
Last(list) == list[Len(list)]

C19_SaveOnlyValidated ==
    [][op' \in {"create_build", "update_build"} =>
        LET b == ret'.args.build_name
            members == ret'.args.members
            loaded == get_tasks(tasks, members)
            exists == op' = "create_build" \/ b \in DOMAIN builds
            stored == Range(members) \subseteq DOMAIN tasks
            acyclic == Acyclic(loaded, DOMAIN loaded)
            sound == MissingReferences(members, loaded) = {}
        IN  /\ ret'.kind = "Build" <=> (exists /\ stored /\ acyclic /\ sound)
            /\ ret'.kind = "Build" => (builds' = save_build(builds, b, members) /\ status'[b] = PENDING)
            /\ ret'.kind # "Build" => (builds' = builds /\ status' = status)
            /\ ~exists => ret'.kind = "BuildNotFoundException"
            /\ (exists /\ ~stored) =>
                  (ret'.kind = "TaskNotFoundException" /\ Range(ret'.missing) = Range(members) \ DOMAIN tasks)
            /\ (exists /\ stored /\ ~acyclic) =>
                  /\ ret'.kind = "CircularDependencyException"
                  /\ \E ord \in Orders : ret'.cycle = detect_cycles(loaded, ord, ord)[1]
            /\ (exists /\ stored /\ acyclic /\ ~sound) =>
                  (ret'.kind = "TaskNotFoundException" /\ Range(ret'.missing) = MissingReferences(members, loaded))]_vars

\* an update refused for a cycle among the new members, the stored build kept
C19_Witness ==
    /\ op = "update_build" /\ ret.kind = "CircularDependencyException"
    /\ builds[ret.args.build_name] # ret.args.members
    /\ Len(ret.args.members) = 3
\* -------------------------------------------------------------- SpecCache
\* the task names of the configurations of SpecCache
CacheNames == {"a", "b"}

\* how many times the stored configuration is changed
MaxChanges == 1

\* how many entries the cache holds
MaxEntries == 1

\* how many calls return before the callers stop calling
MaxCalls == 1

\* the inputs a cached result was computed from
Configuration(build_name, alg, members, loaded, list) ==
    [build_name |-> build_name, algorithm |-> alg, members |-> Range(members), prerequisites |-> loaded, tasks |-> list]

\* CacheService.cache_sorted_tasks(sorted_tasks, algorithm, build, tasks) for
\* the stored build b and a SortedTaskList that orders its members as list
CacheSortedTasks(b, alg, list, up) ==
    /\ b \in DOMAIN builds
    /\ Range(list) = Range(builds[b])
    /\ LET members == builds[b]
           loaded == get_tasks(tasks, members)
           key == _sorted_tasks_cache_key(b, alg, _config_hash(members, loaded))
           written == CacheService_cache_sorted_tasks(cache, b, Sorted(list, <<>>), alg, members, loaded, up)
       IN  /\ Cardinality(DOMAIN cache \cup {key}) <= MaxEntries
           /\ cache' = written.store
           /\ origin' = IF written.ok THEN CacheSet(origin, key, Configuration(b, alg, members, loaded, list)) ELSE origin
           /\ ret' = [NoRet EXCEPT !.kind = IF written.ok THEN "True" ELSE "False", !.tasks = list,
                                   !.args = [NoArgs EXCEPT !.build_name = b, !.set_up = up]]
    /\ op' = "cache.cache_sorted_tasks"
    /\ algorithm' = alg
    /\ UNCHANGED <<tasks, builds, status, changes, requests, job>>

\* CacheService.get_sorted_tasks(build_name, algorithm, build, tasks) for the
\* stored build b
CacheGetSortedTasks(b, alg, up) ==
    /\ b \in DOMAIN builds
    /\ LET found == CacheService_get_sorted_tasks(cache, b, alg, builds[b], get_tasks(tasks, builds[b]), up)
       IN  /\ cache' = found.store
           /\ ret' = [found.result EXCEPT !.args = [NoArgs EXCEPT !.build_name = b, !.get_up = up]]
    /\ op' = "cache.get_sorted_tasks"
    /\ algorithm' = alg
    /\ UNCHANGED <<tasks, builds, status, changes, origin, requests, job>>

\* TaskRepository.save_task(task): the prerequisites of a task are replaced
SaveTask(n, dependencies) ==
    /\ changes < MaxChanges
    /\ TaskValid(n, dependencies)
    /\ tasks' = save_build(tasks, n, dependencies)
    /\ changes' = changes + 1
    /\ op' = "save_task"
    /\ ret' = NoRet
    /\ UNCHANGED <<builds, cache, algorithm, status, origin, requests, job>>

\* BuildRepository.save_build(build): the member list of a build is replaced
SaveBuild(b, members) ==
    /\ changes < MaxChanges
    /\ b \in DOMAIN builds
    /\ BuildValid(members)
    /\ builds' = save_build(builds, b, members)
    /\ changes' = changes + 1
    /\ op' = "save_build"
    /\ ret' = NoRet
    /\ UNCHANGED <<tasks, cache, algorithm, status, origin, requests, job>>

\* every member list over CacheNames
CacheMemberLists == {l \in UNION {[1..n -> CacheNames] : n \in 1..Cardinality(CacheNames)} : BuildValid(l)}

\* every stored build and universe over CacheNames, nothing cached
InitCache ==
    /\ \E D \in SUBSET CacheNames : tasks \in [D -> SUBSET CacheNames]
    /\ \A n \in DOMAIN tasks : TaskValid(n, tasks[n])
    /\ builds \in [BuildNames -> CacheMemberLists]
    /\ status = [b \in DOMAIN builds |-> PENDING]
    /\ cache = <<>>
    /\ op = "none"
    /\ algorithm = KAHN
    /\ ret = NoRet
    /\ Quiet

NextCache ==
    \/ \E b \in BuildNames, alg \in SortAlgorithm, list \in CacheMemberLists, up \in BOOLEAN :
          CacheSortedTasks(b, alg, list, up)
    \/ \E b \in BuildNames, alg \in SortAlgorithm, up \in BOOLEAN : CacheGetSortedTasks(b, alg, up)
    \/ \E n \in CacheNames, dependencies \in SUBSET CacheNames : SaveTask(n, dependencies)
    \/ \E b \in BuildNames, members \in CacheMemberLists : SaveBuild(b, members)
    \/ \E key \in DOMAIN cache : Expire(key)

\* results cached, looked up and expiring while the configuration changes
SpecCache == InitCache /\ [][NextCache]_vars

\* the lookup of the last step found an entry under the key of its arguments
Hit == op = "cache.get_sorted_tasks" /\ ret.kind = "SortedTaskList"

\* C14: a lookup with the build name, algorithm, build and universe a result
\* was cached for, the backing store answering and the entry not expired,
\* returns a result whose ordered task list is the one that was cached.
C14_RoundTrip ==
    (/\ op = "cache.get_sorted_tasks"
     /\ ret.args.get_up
     /\ RequestKey(ret.args.build_name, algorithm) \in DOMAIN cache)
        => (Hit /\ ret.tasks = origin[RequestKey(ret.args.build_name, algorithm)].tasks)

\* a hit that returns two members in an order that is not the sorted one
C14_Witness ==
    /\ Hit /\ Len(ret.tasks) = 2
    /\ ret.tasks # SortNames(Range(ret.tasks))

\* C15: a lookup never returns an entry cached for another algorithm, another
\* member set or other prerequisite sets of the members than those it is
\* called with, and every change of the prerequisite set of a member, of the
\* member set or of the algorithm changes the cache key.
C15_ChangedInputsMiss ==
    /\ [](Hit =>
            LET b == ret.args.build_name
                from == origin[RequestKey(b, algorithm)]
            IN  /\ from.build_name = b /\ from.algorithm = algorithm
                /\ from.members = Range(builds[b])
                /\ from.prerequisites = get_tasks(tasks, builds[b]))
    /\ [](\A b \in DOMAIN builds : RequestKey(b, KAHN) # RequestKey(b, DFS))
    /\ [][\A b \in DOMAIN builds, alg \in SortAlgorithm :
            (\/ get_tasks(tasks', builds'[b]) # get_tasks(tasks, builds[b])
             \/ Range(builds'[b]) # Range(builds[b]))
                => RequestKey(b, alg)' # RequestKey(b, alg)]_vars

\* a miss, the store answering, while the cache holds the entry computed for
\* the same build, algorithm and members before a prerequisite set changed
C15_Witness ==
    /\ op = "cache.get_sorted_tasks" /\ ret.kind = "None" /\ ret.args.get_up
    /\ \E key \in DOMAIN cache :
          /\ origin[key].build_name = ret.args.build_name
          /\ origin[key].algorithm = algorithm
          /\ origin[key].members = Range(builds[ret.args.build_name])
          /\ origin[key].prerequisites # get_tasks(tasks, builds[ret.args.build_name])
\* --------------------------------------------------------------- SpecRace
\* the resolution requests in flight at the same time
Requests == {"r1", "r2"}

\* a request that has not started: its position, its arguments and the local
\* variables build, tasks and sorted_tasks of get_sorted_tasks
Idle == [pc |-> "idle", build_name |-> "", algorithm |-> KAHN, members |-> <<>>, loaded |-> <<>>,
         kind |-> "none", tasks |-> <<>>, wrote |-> FALSE]

\* the cache key a request computes from its local variables
KeyOf(q) == _sorted_tasks_cache_key(q.build_name, q.algorithm, _config_hash(q.members, q.loaded))

\* get_sorted_tasks up to the cache lookup: the build and its tasks are read
\* (no action of SpecRace changes a task, so the two reads are one step)
RequestLoad(r, b, alg) ==
    /\ requests[r].pc = "idle"
    /\ LET loaded == IF b \in DOMAIN builds THEN get_tasks(tasks, builds[b]) ELSE <<>>
           started == [requests[r] EXCEPT !.build_name = b, !.algorithm = DefaultKahn(alg)]
       IN  requests' = [requests EXCEPT ![r] =
               IF b \notin DOMAIN builds
               THEN [started EXCEPT !.pc = "done", !.kind = "BuildNotFoundException"]
               ELSE IF MissingTasks(builds[b], loaded) # {}
               THEN [started EXCEPT !.pc = "done", !.kind = "TaskNotFoundException"]
               ELSE [started EXCEPT !.pc = "loaded", !.members = builds[b], !.loaded = loaded]]
    /\ UNCHANGED <<tasks, builds, cache, op, algorithm, ret, status, changes, origin, job>>

\* the cache lookup of the request: a hit is returned
RequestLookup(r, up) ==
    /\ requests[r].pc = "loaded"
    /\ LET q == requests[r]
           found == Lookup(cache, q.build_name, q.algorithm, q.members, q.loaded, up)
       IN  /\ cache' = found.store
           /\ requests' = [requests EXCEPT ![r] =
                  IF found.result.kind = "None" THEN [q EXCEPT !.pc = "missed"]
                  ELSE [q EXCEPT !.pc = "done", !.kind = found.result.kind, !.tasks = found.result.tasks]]
    /\ UNCHANGED <<tasks, builds, op, algorithm, ret, status, changes, origin, job>>

\* after a miss: sort_tasks on the local build and tasks, then the write of
\* the result under the key of the local build and tasks
RequestPopulate(r, up, ord) ==
    /\ requests[r].pc = "missed"
    /\ LET q == requests[r]
           sorted_tasks == sort_tasks(q.members, q.loaded, q.algorithm, ord)
           written == Populate(cache, q.build_name, sorted_tasks, q.algorithm, q.members, q.loaded, up)
       IN  IF sorted_tasks.kind # "SortedTaskList"
           THEN /\ requests' = [requests EXCEPT ![r] = [q EXCEPT !.pc = "done", !.kind = sorted_tasks.kind]]
                /\ cache' = cache
           ELSE /\ requests' = [requests EXCEPT ![r] =
                       [q EXCEPT !.pc = "done", !.kind = sorted_tasks.kind, !.tasks = sorted_tasks.tasks, !.wrote = written.ok]]
                /\ cache' = written.store
    /\ UNCHANGED <<tasks, builds, op, algorithm, ret, status, changes, origin, job>>

\* every stored build and universe over CacheNames, no request started
InitRace ==
    /\ \E D \in SUBSET CacheNames : tasks \in [D -> SUBSET CacheNames]
    /\ \A n \in DOMAIN tasks : TaskValid(n, tasks[n])
    /\ builds \in [BuildNames -> CacheMemberLists]
    /\ status = [b \in DOMAIN builds |-> PENDING]
    /\ cache = <<>>
    /\ op = "none"
    /\ algorithm = KAHN
    /\ ret = NoRet
    /\ changes = 0
    /\ origin = <<>>
    /\ requests = [r \in Requests |-> Idle]
    /\ job = NoJob

NextRace ==
    \/ \E r \in Requests, b \in BuildNames, alg \in SortAlgorithm \cup {None} : RequestLoad(r, b, alg)
    \/ \E r \in Requests, up \in BOOLEAN : RequestLookup(r, up)
    \/ \E r \in Requests, up \in BOOLEAN, ord \in Orders : RequestPopulate(r, up, ord)
    \/ \E b \in BuildNames, members \in CacheMemberLists, ord \in Orders : UpdateBuild(b, members, ord)

\* two cached resolution requests and updates of the build, step by step
SpecRace == InitRace /\ [][NextRace]_vars

\* C17: any two requests that write to the same cache key write the same
\* ordered task list, whatever the interleaving of the requests with one
\* another and with update_build.
C17_RacingWritesAgree ==
    \A r1, r2 \in Requests :
        (requests[r1].wrote /\ requests[r2].wrote /\ KeyOf(requests[r1]) = KeyOf(requests[r2]))
            => requests[r1].tasks = requests[r2].tasks
\* ---------------------------------------------------------------- SpecJob
\* @celery_app.task(bind=True, max_retries=3)
max_retries == 3

\* the algorithm argument of the job: "kahn", "dfs" or any other text
JobAlgorithms == {"kahn", "dfs", "other"}

\* SortAlgorithm.KAHN if algorithm == "kahn" else SortAlgorithm.DFS
JobAlgorithm(text) == IF text = "kahn" THEN KAHN ELSE DFS

\* what may go wrong outside the build service during an attempt: nothing,
\* the session or the store before the build is read, a task while it runs
JobFaults == {"none", "connect", "execute"}

\* _execute_build_internal: "ok" or the class of the exception it raises, and
\* the build statuses it leaves
_execute_build_internal(universe, stored, statuses, build_name, text, fault, ord) ==
    LET sorted_tasks == get_sorted_tasks(universe, stored, <<>>, build_name, JobAlgorithm(text), FALSE, TRUE, TRUE, ord).ret
    IN  IF fault = "connect" THEN [raised |-> "Exception", status |-> statuses]
        ELSE IF build_name \notin DOMAIN stored THEN [raised |-> "BuildNotFoundException", status |-> statuses]
        ELSE IF sorted_tasks.kind # "SortedTaskList"
        THEN [raised |-> sorted_tasks.kind, status |-> save_build(statuses, build_name, FAILED)]
        ELSE IF fault = "execute" THEN [raised |-> "Exception", status |-> save_build(statuses, build_name, FAILED)]
        ELSE [raised |-> "ok", status |-> save_build(statuses, build_name, COMPLETED)]

\* the exceptions the job answers with a FAILED result at once
NotRetried == {"CircularDependencyException", "BuildNotFoundException", "TaskNotFoundException"}

\* slip: the two except clauses for the domain exceptions are missing
RetryAny(raised, retries) == retries < max_retries

\* the last except clause is reached and self.request.retries < self.max_retries
ShouldRetry(raised, retries) == raised \notin NotRetried /\ retries < max_retries

\* execute_build_async.delay(build_name, algorithm)
SubmitJob(b, text) ==
    /\ job.state = "idle"
    /\ job' = [job EXCEPT !.state = "PENDING", !.build_name = b, !.algorithm = text]
    /\ UNCHANGED <<tasks, builds, cache, op, algorithm, ret, status, changes, origin, requests>>

\* one run of execute_build_async by a worker
RunJob(fault, ord) ==
    /\ job.state \in {"PENDING", "RETRY"}
    /\ LET run == _execute_build_internal(tasks, builds, status, job.build_name, job.algorithm, fault, ord)
       IN  /\ status' = run.status
           /\ job' = [job EXCEPT
                  !.outcomes = Append(@, run.raised),
                  !.retries = IF run.raised # "ok" /\ ShouldRetry(run.raised, job.retries) THEN @ + 1 ELSE @,
                  !.state = IF run.raised = "ok" THEN "COMPLETED"
                            ELSE IF ShouldRetry(run.raised, job.retries) THEN "RETRY"
                            ELSE "FAILED"]
    /\ UNCHANGED <<tasks, builds, cache, op, algorithm, ret, changes, origin, requests>>

NextJob ==
    \/ \E b \in BuildNames, text \in JobAlgorithms : SubmitJob(b, text)
    \/ \E fault \in JobFaults, ord \in Orders : RunJob(fault, ord)

\* every universe over CacheNames, the build stored or not, no job submitted
InitJob ==
    /\ \E D \in SUBSET CacheNames : tasks \in [D -> SUBSET CacheNames]
    /\ \A n \in DOMAIN tasks : TaskValid(n, tasks[n])
    /\ builds \in UNION {[D -> CacheMemberLists] : D \in SUBSET BuildNames}
    /\ status = [b \in DOMAIN builds |-> PENDING]
    /\ cache = <<>>
    /\ op = "none"
    /\ algorithm = KAHN
    /\ ret = NoRet
    /\ Quiet

\* the worker runs a job that is submitted or waits for its retry
SpecJob == InitJob /\ [][NextJob]_vars /\ WF_vars(NextJob)

\* C20: an attempt of execute_build_async that fails with
\* CircularDependencyException, BuildNotFoundException or
\* TaskNotFoundException is the last one and the job returns FAILED on it; any
\* other exception is retried at most max_retries times, after which the job
\* returns FAILED; the job always ends COMPLETED or FAILED.
C20_JobRetries ==
    /\ [](\A i \in DOMAIN job.outcomes :
            job.outcomes[i] \in NotRetried => (i = Len(job.outcomes) /\ job.state = "FAILED"))
    /\ [](/\ job.retries <= max_retries
          /\ Len(job.outcomes) <= max_retries + 1
          /\ job.state = "RETRY" => job.retries = Len(job.outcomes)
          /\ (job.state = "FAILED" /\ Last(job.outcomes) \notin NotRetried) => job.retries = max_retries
          /\ job.state = "COMPLETED" => Last(job.outcomes) = "ok")
    /\ (job.state = "PENDING" ~> job.state \in {"COMPLETED", "FAILED"})

\* a job that gave up after its retries, and one refused at once for a cycle
\* after an earlier attempt was retried
C20_Witness ==
    /\ job.state = "FAILED"
    /\ \/ Len(job.outcomes) = max_retries + 1 /\ Last(job.outcomes) = "Exception"
       \/ Len(job.outcomes) = 2 /\ Last(job.outcomes) = "CircularDependencyException"

\* ------------------------------------------------------------ closed paths
\* cycle starts and ends at one task, visits no other task twice, stays among
\* the stored tasks of nodes, and each element names the next as a prerequisite
ClosedPath(universe, nodes, cycle) ==
    /\ Len(cycle) >= 2
    /\ cycle[1] = cycle[Len(cycle)]
    /\ NoDuplicates(SubSeq(cycle, 1, Len(cycle) - 1))
    /\ Range(cycle) \subseteq nodes \cap DOMAIN universe
    /\ \A i \in 1..(Len(cycle) - 1) : cycle[i + 1] \in universe[cycle[i]]

\* C21: every cycle that detect_cycles returns, and the cycle of every
\* CircularDependencyException of sort_tasks (KAHN or DFS), is a closed path:
\* first and last element are the same task, every element is one of the
\* examined tasks (the stored tasks; for sort_tasks the members of the build)
\* and has the next element among its prerequisites.
C21_CyclesAreClosedPaths ==
    /\ op = "detect_cycles"
           => \A i \in DOMAIN ret.cycles : ClosedPath(tasks, DOMAIN tasks, ret.cycles[i])
    /\ (op = "sort_tasks" /\ ret.kind = "CircularDependencyException")
           => \A b \in DOMAIN builds : ClosedPath(tasks, Range(builds[b]), ret.cycle)

\* a cycle of two tasks reported by sort_tasks for a build whose first member
\* is outside the cycle and leads into it
C21_Witness ==
    /\ op = "sort_tasks" /\ ret.kind = "CircularDependencyException"
    /\ Len(ret.cycle) = 3
    /\ \E b \in DOMAIN builds :
          /\ Len(builds[b]) = 3
          /\ builds[b][1] \notin Range(ret.cycle)
          /\ tasks[builds[b][1]] \cap Range(ret.cycle) # {}

\* --------------------------------------------------------------- Kahn ties
\* the in-build prerequisite of t that stands last in list: the task whose
\* processing made t ready
ReadiedBy(members, universe, list, t) ==
    CHOOSE p \in BuildDeps(universe, Range(members), t) :
        \A q \in BuildDeps(universe, Range(members), t) : Index(list, q) <= Index(list, p)

\* C22: a KAHN result starts with the members without in-build prerequisites
\* in their build-list order, and members that become ready while the same
\* dequeued task is processed stand in the result in their build-list order.
C22_KahnTiesByBuildOrder ==
    \A b \in DOMAIN builds :
        (op = "sort_tasks" /\ algorithm = KAHN /\ ret.kind = "SortedTaskList")
            => LET members == builds[b]
                   seeds == InitialQueue(members, InDegree(members, tasks))
                   later == Range(members) \ Range(seeds)
               IN  /\ SubSeq(ret.tasks, 1, Len(seeds)) = seeds
                   /\ \A x, y \in later :
                         (/\ ReadiedBy(members, tasks, ret.tasks, x) = ReadiedBy(members, tasks, ret.tasks, y)
                          /\ Index(members, x) < Index(members, y))
                             => Index(ret.tasks, x) < Index(ret.tasks, y)

\* ------------------------------------------------------ Kahn's remainder
\* set(build.tasks) - set(result): the members the Kahn loop did not resolve
\* (the same set for every iteration order)
Unresolved(members, universe) == Range(members) \ Range(KahnResult(members, universe, NameOrder))

\* C23: whenever the Kahn loop ends with fewer results than the build has
\* members, the cycle search over the unresolved members finds a cycle: the
\* failure is CircularDependencyException, never TopologicalSortException, and
\* every element of its cycle is an unresolved member.
C23_KahnRemainderHasCycle ==
    \A b \in DOMAIN builds :
        (op = "sort_tasks" /\ algorithm = KAHN /\ ret.kind # "TaskNotFoundException")
            => /\ ret.kind # "TopologicalSortException"
               /\ Unresolved(builds[b], tasks) # {}
                     => /\ ret.kind = "CircularDependencyException"
                        /\ ret.cycle # <<>>
                        /\ Range(ret.cycle) \subseteq Unresolved(builds[b], tasks)

\* the loop resolved none of three members: a cycle of two and a member that
\* waits for the cycle
C23_Witness ==
    /\ op = "sort_tasks" /\ algorithm = KAHN /\ ret.kind = "CircularDependencyException"
    /\ \E b \in DOMAIN builds :
          /\ Cardinality(Unresolved(builds[b], tasks)) = 3
          /\ Len(ret.cycle) = 3

\* ------------------------------------------------------------ SpecEntries
\* a well-formed entry of the build b1
GoodEntry == JsonDumps(CacheData("b1", Sorted(<<"a">>, <<>>), KAHN))

\* entry without the field name
WithoutField(entry, name) == [k \in DOMAIN entry \ {name} |-> entry[k]]

\* entries another writer or an older release may have left under a key:
\* documents that are no mapping, mappings that lack a field, and mappings
\* whose values break a rule of SortedTaskList.__post_init__
InvalidEntries ==
    {PyValue("raw", "not json"), PyValue("string", "text"), PyValue("array", <<"a">>),
     PyValue("array", <<>>), PyValue("number", 1), <<>>,
     WithoutField(GoodEntry, "tasks"), WithoutField(GoodEntry, "has_cycles"),
     [GoodEntry EXCEPT !["execution_time_ms"] = PyValue("string", "fast")],
     [GoodEntry EXCEPT !["has_cycles"] = PyValue("boolean", TRUE)],
     [WithoutField(GoodEntry, "cycle_details") EXCEPT !["has_cycles"] = PyValue("boolean", TRUE)],
     [GoodEntry EXCEPT !["execution_time_ms"] = PyValue("number", -1)],
     [GoodEntry EXCEPT !["build_name"] = PyValue("string", "")]}

\* an entry appears under the key of a request for the stored build b
ForeignWrite(b, alg, entry) ==
    /\ b \in DOMAIN builds
    /\ Cardinality(DOMAIN cache \cup {RequestKey(b, alg)}) <= MaxEntries
    /\ cache' = CacheSet(cache, RequestKey(b, alg), entry)
    /\ origin' = [k \in DOMAIN origin \ {RequestKey(b, alg)} |-> origin[k]]
    /\ op' = "foreign_write"
    /\ algorithm' = alg
    /\ ret' = NoRet
    /\ UNCHANGED <<tasks, builds, status, changes, requests, job>>

NextEntries ==
    \/ \E b \in BuildNames, alg \in SortAlgorithm, entry \in InvalidEntries \cup {GoodEntry} :
          ForeignWrite(b, alg, entry)
    \/ \E b \in BuildNames, alg \in SortAlgorithm, up \in BOOLEAN : CacheGetSortedTasks(b, alg, up)
    \/ \E key \in DOMAIN cache : Expire(key)

\* lookups against a cache that holds entries of any shape
SpecEntries == InitCache /\ [][NextEntries]_vars

\* C24: CacheService.get_sorted_tasks, the store answering, returns None,
\* raises nothing and deletes the entry when the entry under the key is
\* invalid: no mapping, a field missing, or values that break a rule of
\* SortedTaskList (has_cycles without cycle_details, a negative execution
\* time, an empty build name).
C24_InvalidEntryDropped ==
    [][\A b \in DOMAIN builds, alg \in SortAlgorithm :
          (/\ op' = "cache.get_sorted_tasks" /\ algorithm' = alg
           /\ ret'.args.build_name = b /\ ret'.args.get_up
           /\ RequestKey(b, alg) \in DOMAIN cache
           /\ cache[RequestKey(b, alg)] \in InvalidEntries)
              => (ret'.kind = "None" /\ RequestKey(b, alg) \notin DOMAIN cache')]_vars

\* -------------------------------------------------------------- SpecStale
\* requests through the result cache while the build is updated and tasks are
\* edited; a request starts while the cache holds at most MaxEntries entries
NextStale ==
    \/ /\ Cardinality(DOMAIN cache) <= MaxEntries
       /\ \E b \in BuildNames, alg \in SortAlgorithm, get_up \in BOOLEAN, set_up \in BOOLEAN, ord \in Orders :
             GetSortedTasks(b, alg, TRUE, get_up, set_up, ord)
    \/ \E b \in BuildNames, members \in CacheMemberLists, ord \in Orders : UpdateBuild(b, members, ord)
    \/ \E n \in CacheNames, dependencies \in SUBSET CacheNames : SaveTask(n, dependencies)
    \/ \E key \in DOMAIN cache : Expire(key)

SpecStale == InitCache /\ [][NextStale]_vars

\* the last step was a request answered from the cache
CachedAnswer ==
    /\ op = "get_sorted_tasks" /\ ret.kind = "SortedTaskList"
    /\ ret.calls = <<"get_build", "get_tasks", "cache.get_sorted_tasks">>

\* C25: whenever BuildService.get_sorted_tasks answers from the cache, the
\* ordered list is one that sort_tasks computes at that moment for the stored
\* build and its loaded tasks with the same algorithm, after any updates of the
\* build (a reordering of its members included) and task edits.
C25_HitNeverStale ==
    CachedAnswer =>
        LET members == builds[ret.args.build_name]
        IN  \E ord \in Orders :
              /\ sort_tasks(members, get_tasks(tasks, members), algorithm, ord).kind = "SortedTaskList"
              /\ sort_tasks(members, get_tasks(tasks, members), algorithm, ord).tasks = ret.tasks

\* ------------------------------------------------------- unrelated cycles
\* C26: for a stored build whose members and their prerequisites are all
\* stored and none of whose members lies on a cycle or reaches one,
\* get_topological_sort returns the ordering, also when other tasks of the
\* universe form a cycle.
C26_UnrelatedCycleIgnored ==
    \A b \in DOMAIN builds :
        (/\ op = "get_topological_sort"
         /\ ReferentiallySound(builds[b], tasks)
         /\ ~CycleReachable(builds[b], tasks))
            => ret.kind = "SortedTaskList"

\* ------------------------------------------------------------ SpecExecute
\* execute_build and cancel_build as the sequences of their awaited repository
\* calls, each call one step on the shared store; update_build runs between
\* any two of them.
\* the locals of an execute_build call: build is the list build.tasks read at
\* the start, sorted the list get_sorted_tasks returned, loaded the names that
\* get_tasks(build.tasks) returned, raised the exception on its way out;
\* cancelled tells that a cancel_build completed while the call was in progress
ExecIdle == [pc |-> "idle", build_name |-> "", algorithm |-> KAHN, build |-> <<>>, sorted |-> <<>>,
             loaded |-> {}, raised |-> "none", cancelled |-> FALSE]

\* the locals of a cancel_build call
CancelIdle == [pc |-> "idle", build_name |-> "", build |-> <<>>]

\* an execute_build call has started and has not returned or raised
InProgress(e) == e.pc \notin {"idle", "done"}

\* build = await self._build_repository.get_build(build_name)
ExecGetBuild(b, alg) ==
    /\ requests.e.pc = "idle"
    /\ requests' = [requests EXCEPT !.e =
          IF b \in DOMAIN builds
          THEN [@ EXCEPT !.pc = "loaded", !.build_name = b, !.algorithm = alg, !.build = builds[b]]
          ELSE [@ EXCEPT !.pc = "done", !.build_name = b, !.algorithm = alg, !.raised = "BuildNotFoundException"]]
    /\ op' = "execute_build.get_build"
    /\ UNCHANGED <<tasks, builds, cache, algorithm, ret, status, changes, origin, job>>

\* await self._build_repository.save_build(updated_build), status RUNNING
ExecSaveRunning ==
    /\ requests.e.pc = "loaded"
    /\ builds' = save_build(builds, requests.e.build_name, requests.e.build)
    /\ status' = save_build(status, requests.e.build_name, RUNNING)
    /\ requests' = [requests EXCEPT !.e.pc = "running"]
    /\ op' = "execute_build.save_running"
    /\ UNCHANGED <<tasks, cache, algorithm, ret, changes, origin, job>>

\* sorted_tasks = await self.get_sorted_tasks(build_name, algorithm, use_cache=False)
ExecGetSortedTasks(ord) ==
    /\ requests.e.pc = "running"
    /\ LET r == get_sorted_tasks(tasks, builds, cache, requests.e.build_name, requests.e.algorithm, FALSE, TRUE, TRUE, ord).ret
       IN  requests' = [requests EXCEPT !.e =
             IF r.kind = "SortedTaskList" THEN [@ EXCEPT !.pc = "sorted", !.sorted = r.tasks]
             ELSE [@ EXCEPT !.pc = "failing", !.raised = r.kind]]
    /\ op' = "execute_build.get_sorted_tasks"
    /\ UNCHANGED <<tasks, builds, cache, algorithm, ret, status, changes, origin, job>>

\* tasks = await self._task_repository.get_tasks(build.tasks)
ExecGetTasks ==
    /\ requests.e.pc = "sorted"
    /\ requests' = [requests EXCEPT !.e.pc = "executing",
                                     !.e.loaded = DOMAIN get_tasks(tasks, requests.e.build)]
    /\ op' = "execute_build.get_tasks"
    /\ UNCHANGED <<tasks, builds, cache, algorithm, ret, status, changes, origin, job>>

\* for task_name in sorted_tasks.tasks: task = tasks[task_name]; save_task(...)
\* (the task statuses are not part of the state)
ExecTasks ==
    /\ requests.e.pc = "executing"
    /\ requests' = [requests EXCEPT !.e =
          IF Range(requests.e.sorted) \subseteq requests.e.loaded
          THEN [@ EXCEPT !.pc = "finishing"]
          ELSE [@ EXCEPT !.pc = "failing", !.raised = "KeyError"]]
    /\ op' = "execute_build.tasks"
    /\ UNCHANGED <<tasks, builds, cache, algorithm, ret, status, changes, origin, job>>

\* return await self._build_repository.save_build(final_build), status COMPLETED
ExecSaveCompleted ==
    /\ requests.e.pc = "finishing"
    /\ builds' = save_build(builds, requests.e.build_name, requests.e.build)
    /\ status' = save_build(status, requests.e.build_name, COMPLETED)
    /\ requests' = [requests EXCEPT !.e.pc = "done"]
    /\ op' = "execute_build.save_completed"
    /\ UNCHANGED <<tasks, cache, algorithm, ret, changes, origin, job>>

\* except Exception: await self._build_repository.save_build(failed_build); raise
ExecSaveFailed ==
    /\ requests.e.pc = "failing"
    /\ builds' = save_build(builds, requests.e.build_name, requests.e.build)
    /\ status' = save_build(status, requests.e.build_name, FAILED)
    /\ requests' = [requests EXCEPT !.e.pc = "done"]
    /\ op' = "execute_build.save_failed"
    /\ UNCHANGED <<tasks, cache, algorithm, ret, changes, origin, job>>

\* cancel_build: build = await self._build_repository.get_build(build_name)
CancelGetBuild(b) ==
    /\ requests.c.pc = "idle"
    /\ requests' = [requests EXCEPT !.c =
          IF b \in DOMAIN builds THEN [@ EXCEPT !.pc = "loaded", !.build_name = b, !.build = builds[b]]
          ELSE [@ EXCEPT !.pc = "done", !.build_name = b]]
    /\ op' = "cancel_build.get_build"
    /\ UNCHANGED <<tasks, builds, cache, algorithm, ret, status, changes, origin, job>>

\* cancel_build: return await self._build_repository.save_build(cancelled_build)
CancelSave ==
    /\ requests.c.pc = "loaded"
    /\ builds' = save_build(builds, requests.c.build_name, requests.c.build)
    /\ status' = save_build(status, requests.c.build_name, CANCELLED)
    /\ requests' = [requests EXCEPT !.c.pc = "done",
                                     !.e.cancelled = @ \/ (InProgress(requests.e) /\ requests.e.build_name = requests.c.build_name)]
    /\ op' = "cancel_build.save"
    /\ UNCHANGED <<tasks, cache, algorithm, ret, changes, origin, job>>

\* an update_build call while the other calls are under way
ConcurrentUpdate(b, members, ord) ==
    /\ changes < MaxChanges
    /\ changes' = changes + 1
    /\ LET r == update_build(tasks, builds, status, b, members, ord)
       IN  /\ r.ret.kind = "Build"
           /\ builds' = r.builds
           /\ status' = r.status
    /\ op' = "update_build"
    /\ UNCHANGED <<tasks, cache, algorithm, ret, origin, requests, job>>

\* every universe over CacheNames, the build stored or not, no call started
InitExecute ==
    /\ \E D \in SUBSET CacheNames : tasks \in [D -> SUBSET CacheNames]
    /\ \A n \in DOMAIN tasks : TaskValid(n, tasks[n])
    /\ builds \in UNION {[D -> CacheMemberLists] : D \in SUBSET BuildNames}
    /\ status = [b \in DOMAIN builds |-> PENDING]
    /\ cache = <<>>
    /\ op = "none"
    /\ algorithm = KAHN
    /\ ret = NoRet
    /\ changes = 0
    /\ origin = <<>>
    /\ requests = [e |-> ExecIdle, c |-> CancelIdle]
    /\ job = NoJob

NextExecute ==
    \/ \E b \in BuildNames, alg \in SortAlgorithm : ExecGetBuild(b, alg)
    \/ ExecSaveRunning
    \/ \E ord \in Orders : ExecGetSortedTasks(ord)
    \/ ExecGetTasks
    \/ ExecTasks
    \/ ExecSaveCompleted
    \/ ExecSaveFailed
    \/ \E b \in BuildNames : CancelGetBuild(b)
    \/ CancelSave
    \/ \E b \in BuildNames, members \in CacheMemberLists, ord \in Orders : ConcurrentUpdate(b, members, ord)

SpecExecute == InitExecute /\ [][NextExecute]_vars

\* C27: when a cancel_build of the build completed while execute_build was in
\* progress, the stored status of the build is CANCELLED at the moment that
\* execute_build finishes: the execution does not overwrite it.
C27_CancellationKept ==
    [][(InProgress(requests.e) /\ requests'.e.pc = "done" /\ requests.e.cancelled)
          => status'[requests.e.build_name] = CANCELLED]_vars

\* C28: a RUNNING, COMPLETED or FAILED write of execute_build leaves the stored
\* member list of the build as it was immediately before the write, whatever
\* update_build did meanwhile, and execute_build never fails because the
\* sorted list names a task outside the tasks it loaded.
C28_ExecuteKeepsMembers ==
    /\ [][(requests'.e # requests.e /\ status' # status) => builds' = builds]_vars
    /\ [](requests.e.raised # "KeyError")

\* -------------------------------------------------------------- SpecTasks
\* TaskService.create_task, update_task and delete_task as the sequences of
\* their awaited repository calls, run by concurrent callers on one store
Callers == {"p1", "p2"}

\* the locals of a TaskService call: call names the method, name and
\* dependencies the task passed, raised the exception on its way out
TaskIdle == [pc |-> "idle", call |-> "none", name |-> "", dependencies |-> {}, raised |-> "none"]

\* every prerequisite named by a stored task is stored
StoreSound(universe) == \A n \in DOMAIN universe : universe[n] \subseteq DOMAIN universe

\* task.dependencies - existing_deps - {task.name}
MissingDependencies(universe, name, dependencies) == (dependencies \ DOMAIN universe) \ {name}

\* the tasks of all_tasks that name task_name as a prerequisite
DependentTasks(universe, task_name) == {n \in DOMAIN universe : task_name \in universe[n]}

\* a caller leaves a step that changes the store only by its own locals
Step(p, next) ==
    /\ requests' = [requests EXCEPT ![p] = next]
    /\ UNCHANGED <<builds, cache, algorithm, ret, status, changes, origin, job>>

\* create_task(task) is called; its first await is in _validate_task_dependencies
CreateTask(p, n, dependencies) ==
    /\ requests[p].pc = "idle"
    /\ TaskValid(n, dependencies)
    /\ Step(p, [TaskIdle EXCEPT !.pc = "validate", !.call = "create_task", !.name = n, !.dependencies = dependencies])
    /\ op' = "create_task"
    /\ UNCHANGED tasks

\* update_task(task): existing_task = await self._task_repository.get_task(task.name)
UpdateTask(p, n, dependencies) ==
    /\ requests[p].pc = "idle"
    /\ TaskValid(n, dependencies)
    /\ Step(p, IF n \in DOMAIN tasks
               THEN [TaskIdle EXCEPT !.pc = "validate", !.call = "update_task", !.name = n, !.dependencies = dependencies]
               ELSE [TaskIdle EXCEPT !.pc = "done", !.call = "update_task", !.name = n, !.dependencies = dependencies,
                                     !.raised = "TaskNotFoundException"])
    /\ op' = "update_task"
    /\ UNCHANGED tasks

\* _validate_task_dependencies(task): all_tasks = await get_all_tasks()
ValidateTaskDependencies(p) ==
    /\ requests[p].pc = "validate"
    /\ Step(p, IF requests[p].dependencies # {}
                  /\ MissingDependencies(tasks, requests[p].name, requests[p].dependencies) # {}
               THEN [requests[p] EXCEPT !.pc = "done", !.raised = "InvalidTaskDependencyException"]
               ELSE [requests[p] EXCEPT !.pc = "save"])
    /\ op' = "_validate_task_dependencies"
    /\ UNCHANGED tasks

\* await self._task_repository.save_task(task)
TaskSave(p) ==
    /\ requests[p].pc = "save"
    /\ tasks' = save_build(tasks, requests[p].name, requests[p].dependencies)
    /\ Step(p, [requests[p] EXCEPT !.pc = "read"])
    /\ op' = "save_task"

\* created_task = await self._task_repository.get_task(task.name)
TaskRead(p) ==
    /\ requests[p].pc = "read"
    /\ Step(p, IF requests[p].name \in DOMAIN tasks THEN [requests[p] EXCEPT !.pc = "done"]
               ELSE [requests[p] EXCEPT !.pc = "done", !.raised = "TaskNotFoundException"])
    /\ op' = "get_task"
    /\ UNCHANGED tasks

\* delete_task(name): await self._task_repository.task_exists(name)
DeleteTask(p, n) ==
    /\ requests[p].pc = "idle"
    /\ Step(p, [TaskIdle EXCEPT !.pc = IF n \in DOMAIN tasks THEN "validate_deletion" ELSE "done",
                                !.call = "delete_task", !.name = n])
    /\ op' = "delete_task"
    /\ UNCHANGED tasks

\* _validate_task_deletion(name): all_tasks = await get_all_tasks()
ValidateTaskDeletion(p) ==
    /\ requests[p].pc = "validate_deletion"
    /\ Step(p, IF DependentTasks(tasks, requests[p].name) # {}
               THEN [requests[p] EXCEPT !.pc = "done", !.raised = "InvalidTaskDependencyException"]
               ELSE [requests[p] EXCEPT !.pc = "delete"])
    /\ op' = "_validate_task_deletion"
    /\ UNCHANGED tasks

\* return await self._task_repository.delete_task(name)
TaskDelete(p) ==
    /\ requests[p].pc = "delete"
    /\ tasks' = [n \in DOMAIN tasks \ {requests[p].name} |-> tasks[n]]
    /\ Step(p, [requests[p] EXCEPT !.pc = "done"])
    /\ op' = "repository.delete_task"

\* the call of caller p has returned or raised; p may call again
TaskReturn(p) ==
    /\ requests[p].pc = "done"
    /\ changes < MaxCalls
    /\ changes' = changes + 1
    /\ requests' = [requests EXCEPT ![p] = TaskIdle]
    /\ op' = "return"
    /\ UNCHANGED <<tasks, builds, cache, algorithm, ret, status, origin, job>>

\* every sound task store over TaskNames, no build, no call started
InitTasks ==
    /\ tasks \in Universes
    /\ StoreSound(tasks)
    /\ builds = <<>>
    /\ status = <<>>
    /\ cache = <<>>
    /\ op = "none"
    /\ algorithm = KAHN
    /\ ret = NoRet
    /\ changes = 0
    /\ origin = <<>>
    /\ requests = [p \in Callers |-> TaskIdle]
    /\ job = NoJob

NextTasks ==
    \/ \E p \in Callers, n \in TaskNames, dependencies \in SUBSET TaskNames : CreateTask(p, n, dependencies)
    \/ \E p \in Callers, n \in TaskNames, dependencies \in SUBSET TaskNames : UpdateTask(p, n, dependencies)
    \/ \E p \in Callers : ValidateTaskDependencies(p)
    \/ \E p \in Callers : TaskSave(p)
    \/ \E p \in Callers : TaskRead(p)
    \/ \E p \in Callers, n \in TaskNames : DeleteTask(p, n)
    \/ \E p \in Callers : ValidateTaskDeletion(p)
    \/ \E p \in Callers : TaskDelete(p)
    \/ \E p \in Callers : TaskReturn(p)

SpecTasks == InitTasks /\ [][NextTasks]_vars

\* C29: from a store in which every prerequisite named by a stored task is
\* stored, every interleaving of create_task, update_task and delete_task
\* calls keeps it so; and a delete_task that finds another task depending on
\* the task raises InvalidTaskDependencyException and leaves the store as it is.
C29_ReferentialIntegrity ==
    /\ [](StoreSound(tasks))
    /\ [][\A p \in Callers :
            (requests[p].pc = "validate_deletion" /\ requests'[p] # requests[p]
             /\ DependentTasks(tasks, requests[p].name) # {})
                => (requests'[p].raised = "InvalidTaskDependencyException" /\ tasks' = tasks)]_vars

\* --------------------------------------------------------- SpecBuildCache
\* f"build:{build_name}"
_build_cache_key(build_name) == <<"build", build_name>>

\* the dict cache_build builds from a Build (the time stamps and the error
\* message, read back with .get, are left out)
BuildCacheData(build_name, members, build_status) ==
    [name |-> PyValue("str", build_name),
     tasks |-> PyValue("list", members),
     status |-> PyValue("str", build_status)]

\* CacheService.cache_build(build)
CacheService_cache_build(store, build_name, members, build_status, up) ==
    IF up THEN CacheSet(store, _build_cache_key(build_name), JsonDumps(BuildCacheData(build_name, members, build_status)))
    ELSE store

\* CacheService.get_build(build_name): the cached Build, or kind "None"
CacheService_get_build(store, build_name, up) ==
    LET cache_key == _build_cache_key(build_name)
        cached_data == JsonLoads(store[cache_key])
    IN  IF ~up \/ cache_key \notin DOMAIN store
        THEN [result |-> Raise("None", <<>>), store |-> store]
        ELSE IF ~Found(cached_data)
        THEN [result |-> Raise("None", <<>>), store |-> store]
        ELSE IF ~IsMapping(cached_data) \/ ~({"name", "tasks", "status"} \subseteq DOMAIN cached_data)
        THEN [result |-> Raise("None", <<>>), store |-> CacheDelete(store, cache_key)]
        ELSE [result |-> [Raise("Build", <<>>) EXCEPT !.tasks = cached_data["tasks"].value,
                                                     !.status = cached_data["status"].value],
              store |-> store]

\* if cached_build: return cached_build
Served(cached) == cached.result.kind = "Build"

\* BuildService.get_build(name) with a cache service: the result and the cache
get_build(stored, statuses, store, name, get_up, set_up) ==
    LET cached == CacheService_get_build(store, name, get_up)
    IN  IF Served(cached)
        THEN [ret |-> [cached.result EXCEPT !.calls = <<"cache.get_build">>], cache |-> cached.store]
        ELSE IF name \in DOMAIN stored
        THEN [ret |-> [Raise("Build", <<"cache.get_build", "get_build", "cache.cache_build">>)
                          EXCEPT !.tasks = stored[name], !.status = statuses[name]],
              cache |-> CacheService_cache_build(cached.store, name, stored[name], statuses[name], set_up)]
        ELSE [ret |-> Raise("None", <<"cache.get_build", "get_build">>), cache |-> cached.store]

\* BuildService.get_build(name)
GetBuild(b, get_up, set_up) ==
    /\ op' = "get_build"
    /\ LET r == get_build(builds, status, cache, b, get_up, set_up)
       IN  /\ ret' = [r.ret EXCEPT !.args = [NoArgs EXCEPT !.build_name = b, !.get_up = get_up, !.set_up = set_up]]
           /\ cache' = r.cache
    /\ UNCHANGED <<tasks, builds, algorithm, otherVars>>

\* BuildService.cancel_build(build_name)
CancelBuild(b) ==
    /\ op' = "cancel_build"
    /\ IF b \in DOMAIN builds
       THEN /\ status' = save_build(status, b, CANCELLED)
            /\ ret' = [Raise("Build", <<"get_build", "save_build">>) EXCEPT
                          !.tasks = builds[b], !.status = CANCELLED, !.saved = <<CANCELLED>>,
                          !.args = [NoArgs EXCEPT !.build_name = b]]
       ELSE /\ status' = status
            /\ ret' = [Raise("BuildNotFoundException", <<"get_build">>) EXCEPT !.args = [NoArgs EXCEPT !.build_name = b]]
    /\ UNCHANGED <<tasks, builds, cache, algorithm, changes, origin, requests, job>>

\* BuildService.delete_build(name)
DeleteBuild(b) ==
    /\ op' = "delete_build"
    /\ builds' = [k \in DOMAIN builds \ {b} |-> builds[k]]
    /\ status' = [k \in DOMAIN status \ {b} |-> status[k]]
    /\ ret' = [Raise(IF b \in DOMAIN builds THEN "True" ELSE "False", <<"delete_build">>) EXCEPT
                  !.args = [NoArgs EXCEPT !.build_name = b]]
    /\ UNCHANGED <<tasks, cache, algorithm, changes, origin, requests, job>>

NextBuildCache ==
    \/ \E b \in BuildNames, get_up \in BOOLEAN, set_up \in BOOLEAN : GetBuild(b, get_up, set_up)
    \/ \E b \in BuildNames, members \in CacheMemberLists, ord \in Orders : CreateBuild(b, members, ord)
    \/ \E b \in BuildNames, members \in CacheMemberLists, ord \in Orders : UpdateBuild(b, members, ord)
    \/ \E b \in BuildNames, alg \in SortAlgorithm, fault \in Faults, ord \in Orders : ExecuteBuild(b, alg, fault, ord)
    \/ \E b \in BuildNames : CancelBuild(b)
    \/ \E b \in BuildNames : DeleteBuild(b)
    \/ \E key \in DOMAIN cache : Expire(key)

\* builds read through the build cache while they are changed, run, cancelled
\* and deleted, one call after the other
SpecBuildCache == InitJob /\ [][NextBuildCache]_vars

\* C30: get_build(name) returns the stored status and member list of the
\* build, or None when the build is not stored, also after update_build,
\* execute_build, cancel_build or delete_build changed the build.
C30_GetBuildCoherent ==
    op = "get_build" =>
        IF ret.args.build_name \in DOMAIN builds
        THEN /\ ret.kind = "Build"
             /\ ret.tasks = builds[ret.args.build_name]
             /\ ret.status = status[ret.args.build_name]
        ELSE ret.kind = "None"
====
